---------------------------- MODULE Spec2Model ----------------------------
(***************************************************************************)
(* A model of the OMM client session engine of python-mitel                *)
(* (src/OMMClient/OMMClient.py, src/OMMClient/messagehelper.py):           *)
(* the message codec, the sequence generator, the correlation table        *)
(* (_events), the transport pump (_work), the dispatcher (_dispatch) and   *)
(* the session lifecycle (login / logout).                                 *)
(*                                                                         *)
(* Python values are modelled as follows.                                  *)
(*   None / a value        <<>> / <<v>>                                    *)
(*   dict of str -> str     a function with a finite set of strings as     *)
(*                          its domain; {} is EmptyMap                     *)
(*   int / str argument     [int |-> n] / [str |-> s] until str() is       *)
(*                          applied to it                                  *)
(*   threading.Event        an identity <<thread, n>>; the set events are  *)
(*                          the elements of isSet                          *)
(***************************************************************************)
EXTENDS Integers, Sequences, FiniteSets, TLC

(***************************************************************************)
(* Bounds of the model.                                                    *)
(***************************************************************************)
\* unsolicited event frames the peer pushes per connection
MaxEvents == 1
\* calls of _get_sequence each thread of SequenceScripts makes
MaxSeqCalls == 2
\* full pages the largest record table of the peer fills
MaxPages == 2
\* child elements of the documents given to the codec alone
MaxElems == 3

(***************************************************************************)
(* Clients, threads of control.                                            *)
(***************************************************************************)
Clients == {"A", "B"}

\* caller threads; the first letter names the client object they call
Callers == {"a1", "a2", "a3", "b1"}

DispatcherOf(c) == IF c = "A" THEN "dispA" ELSE "dispB"

Dispatchers == {DispatcherOf(c) : c \in Clients}

Threads == Callers \cup Dispatchers

ClientOf(x) == IF x \in {"a1", "a2", "a3", "dispA"} THEN "A" ELSE "B"

None == <<>>

Some(v) == <<v>>

EmptyMap == [k \in {} |-> ""]

Range(s) == {s[i] : i \in DOMAIN s}

(***************************************************************************)
(* Message codec (messagehelper.py).  A wire string is modelled by the     *)
(* document it renders: the root tag, its attributes (all strings) and     *)
(* the child elements in document order.                                   *)
(***************************************************************************)
str(v) == IF "int" \in DOMAIN v THEN ToString(v.int) ELSE v.str

PyInt(n) == [int |-> n]

PyStr(s) == [str |-> s]

\* one child element per key of `children`, in the order given by `order`
RECURSIVE ChildElements(_, _)
ChildElements(children, order) ==
    IF order = <<>> THEN <<>>
    ELSE LET key == Head(order)
             val == children[key]
         IN  <<[tag |-> key,
                attrs |-> [k \in DOMAIN val |-> str(val[k])]]>>
             \o ChildElements(children, Tail(order))

\* the frame delimiter byte
NUL == [nul |-> TRUE]

\* construct_message(name, attributes, children): `attributes` is a dict or
\* None, `children` is None or [order |-> keys in insertion order, map |-> dict];
\* the result is the string that holds the one rendered document
construct_message(name, attributes, children) ==
    LET attrs == IF attributes = None THEN EmptyMap ELSE attributes[1]
    IN  <<[name     |-> name,
           attrs    |-> [k \in DOMAIN attrs |-> str(attrs[k])],
           children |-> IF children = None THEN <<>>
                        ELSE ChildElements(children[1].map, children[1].order)]>>

\* a parse that keeps the last child of a tag only
FoldChildrenKeepLast(elems, n) ==
    [tag \in {elems[i].tag : i \in 1..n} |->
        [one |-> elems[CHOOSE i \in 1..n :
                          /\ elems[i].tag = tag
                          /\ \A j \in 1..n : elems[j].tag = tag => j <= i].attrs]]

\* the children dict of parse_message after the first n child elements:
\* a tag seen once maps to [one |-> attrs], a tag seen again to [many |-> list]
RECURSIVE FoldChildren(_, _)
FoldChildren(elems, n) ==
    IF n = 0 THEN EmptyMap
    ELSE LET children  == FoldChildren(elems, n - 1)
             childname == elems[n].tag
             new_child == elems[n].attrs
         IN  IF childname \in DOMAIN children
             THEN LET old  == children[childname]
                      list == IF "many" \in DOMAIN old THEN old.many
                              ELSE <<old.one>>
                  IN  [children EXCEPT
                          ![childname] = [many |-> Append(list, new_child)]]
             ELSE (childname :> [one |-> new_child]) @@ children

MaxChildren == 5000

\* str.rstrip('\0')
RECURSIVE rstrip(_)
rstrip(text) ==
    IF text # <<>> /\ text[Len(text)] = NUL
    THEN rstrip(SubSeq(text, 1, Len(text) - 1))
    ELSE text

\* parseString accepts a string that holds exactly one document
WellFormed(messagedata) ==
    LET xml == rstrip(messagedata)
    IN  Len(xml) = 1 /\ "name" \in DOMAIN xml[1]

\* parse_message(messagedata) = <<name, attributes, children>>, for a
\* well-formed messagedata (parseString raises on any other)
parse_message(messagedata) ==
    LET root == rstrip(messagedata)[1]
        n    == IF Len(root.children) < MaxChildren
                THEN Len(root.children) ELSE MaxChildren
    IN  <<root.name, root.attrs, FoldChildren(root.children, n)>>

(***************************************************************************)
(* The public commands: the request each one sends, whether it calls       *)
(* _ensure_login first and whether it draws a sequence number.             *)
(***************************************************************************)
Command(op) ==
    CASE op = "login"           -> [request |-> "Open",         guard |-> FALSE, seq |-> FALSE]
      [] op = "get_account"     -> [request |-> "GetAccount",   guard |-> TRUE,  seq |-> FALSE]
      [] op = "subscribe_event" -> [request |-> "Subscribe",    guard |-> TRUE,  seq |-> FALSE]
      [] op = "get_versions"    -> [request |-> "GetVersions",  guard |-> FALSE, seq |-> FALSE]
      [] op = "ping"            -> [request |-> "Ping",         guard |-> TRUE,  seq |-> FALSE]
      [] op = "get_device"      -> [request |-> "GetPPDev",     guard |-> FALSE, seq |-> TRUE]
      [] op = "get_user"        -> [request |-> "GetPPUser",    guard |-> FALSE, seq |-> TRUE]
      [] op = "delete_user"     -> [request |-> "DeletePPUser", guard |-> TRUE,  seq |-> TRUE]
      [] op = "get_device_state" -> [request |-> "GetPPState",  guard |-> TRUE,  seq |-> TRUE]
      [] op = "get_devices"     -> [request |-> "GetPPDev",     guard |-> FALSE, seq |-> TRUE]
      [] op = "get_users"       -> [request |-> "GetPPUser",    guard |-> FALSE, seq |-> TRUE]
      [] op = "set_user_pin"    -> [request |-> "SetPPUser",    guard |-> FALSE, seq |-> TRUE]
      [] op = "get_sari"        -> [request |-> "GetSARI",      guard |-> TRUE,  seq |-> FALSE]
      [] op = "get_systemname"  -> [request |-> "GetSystemName", guard |-> TRUE, seq |-> FALSE]
      [] op = "get_limits"      -> [request |-> "Limits",       guard |-> TRUE,  seq |-> FALSE]
      [] op = "delete_device"   -> [request |-> "DeletePPDev",  guard |-> TRUE,  seq |-> TRUE]

\* MAX_RECORDS of get_devices and get_users
MAX_RECORDS == 20

\* the generator methods: the child tag they read, its id attribute and the
\* name of their cursor argument
Generators == {"get_devices", "get_users"}

Paged(op) ==
    IF op = "get_devices"
    THEN [tag |-> "pp", id |-> "ppn", cursor |-> "start_ppn"]
    ELSE [tag |-> "user", id |-> "uid", cursor |-> "start_uid"]

\* the messagedata argument of the command's _sendrequest call
MessageData(op, arg, sequence) ==
    CASE op = "login" ->
           Some([protocolVersion |-> PyStr("45"),
                 username        |-> PyStr(arg.user),
                 password        |-> PyStr(arg.password)]
                @@ (IF arg.ommsync
                    THEN [UserDeviceSyncClient |-> PyStr("true")]
                    ELSE [OMPClient |-> PyStr("1")]))
      [] op = "get_account"     -> Some([id |-> PyInt(arg.uid)])
      [] op = "subscribe_event" -> Some(EmptyMap)
      [] op = "get_versions"    -> None
      [] op = "ping"            -> Some(EmptyMap)
      [] op = "get_device"      -> Some([seq |-> PyInt(sequence), ppn |-> PyInt(arg.ppn)])
      [] op = "get_user"        -> Some([seq |-> PyInt(sequence), uid |-> PyInt(arg.uid)])
      [] op = "delete_user"     ->
           Some([uid |-> PyInt(arg.uid), seq |-> PyStr(ToString(sequence))])
      [] op = "get_device_state" ->
           Some([ppn |-> PyStr(ToString(arg.ppn)), seq |-> PyStr(ToString(sequence))])
      [] op = "get_devices" ->
           Some([seq |-> PyInt(sequence), ppn |-> PyInt(arg.start_ppn),
                 maxRecords |-> PyInt(MAX_RECORDS)])
      [] op = "get_users" ->
           Some([seq |-> PyInt(sequence), uid |-> PyInt(arg.start_uid),
                 maxRecords |-> PyInt(MAX_RECORDS)])
      [] op = "set_user_pin" -> Some([seq |-> PyStr(ToString(sequence))])
      [] op \in {"get_sari", "get_systemname", "get_limits"} -> None
      [] op = "delete_device" ->
           Some([ppn |-> PyStr(ToString(arg.ppid)), seq |-> PyStr(ToString(sequence))])

\* utils.encrypt_pin(pin, modulus, exponent) of the crypto collaborator: the
\* ciphertext string of a plaintext under a public key
encrypt_pin(pin, modulus, exponent) ==
    "rsa(" \o pin \o "," \o modulus \o "," \o exponent \o ")"

\* the arguments of a call with what the method computes from them before its
\* first step: set_user_pin builds its user dict (lines 265-270) with the pin
\* encrypted under the stored key
Bound(op, arg, modulus, exponent) ==
    IF op = "set_user_pin"
    THEN arg @@ [cipher |-> encrypt_pin(arg.pin, modulus[1], exponent[1])]
    ELSE arg

\* a user dict that carries the pin as given
ChildrenPlainPin(op, arg) ==
    IF op = "set_user_pin"
    THEN Some([order |-> <<"user">>,
               map   |-> [user |-> [uid |-> PyInt(arg.uid), pin |-> PyStr(arg.pin)]]])
    ELSE None

\* the children argument of the command's _sendrequest call
Children(op, arg) ==
    IF op = "subscribe_event"
    THEN Some([order |-> <<"e">>,
               map   |-> [e |-> [cmd |-> PyStr("On"), eventType |-> PyStr(arg.event)]]])
    ELSE IF op = "set_user_pin"
    THEN Some([order |-> <<"user">>,
               map   |-> [user |-> [uid |-> PyInt(arg.uid), pin |-> PyStr(arg.cipher)]]])
    ELSE None

\* what the command makes of the decoded response: [raise |-> text] or
\* [value |-> v]; the record wrappers PPDev / PPUser are their attribute maps
Outcome(op, arg, data) ==
    LET attributes == data[2]
        children   == data[3]
        Record(tag, idattr, id) ==
            IF tag \in DOMAIN children
            THEN IF "many" \in DOMAIN children[tag]
                 THEN [raise |-> "TypeError"]
                 ELSE IF idattr \notin DOMAIN children[tag].one
                      THEN [raise |-> "KeyError"]
                      ELSE IF children[tag].one[idattr] = ToString(id)
                           THEN [value |-> Some(children[tag].one)]
                           ELSE [value |-> None]
            ELSE [value |-> None]
    IN  CASE op \in {"get_account", "get_versions"} -> [value |-> Some(attributes)]
          [] op \in {"subscribe_event", "ping", "delete_user"} -> [value |-> None]
          [] op \in {"get_device", "get_device_state"} -> Record("pp", "ppn", arg.ppn)
          [] op = "get_user"   -> Record("user", "uid", arg.uid)
          [] op = "get_limits" -> [value |-> Some(attributes)]
          [] op = "get_sari" ->
               [value |-> IF "sari" \in DOMAIN attributes
                          THEN Some(attributes["sari"]) ELSE None]
          [] op = "get_systemname" ->
               [value |-> IF "name" \in DOMAIN attributes
                          THEN Some(attributes["name"]) ELSE None]
          [] op = "delete_device" -> [value |-> None]
          [] op = "set_user_pin" ->
               IF DOMAIN children = {} THEN [value |-> FALSE]
               ELSE IF "user" \notin DOMAIN children THEN [raise |-> "KeyError"]
               ELSE [value |-> TRUE]

(***************************************************************************)
(* The peer (the OMM) as the pump's socket sees it: the replies it may     *)
(* give to a request frame and the event frames it may push.               *)
(***************************************************************************)
PublicKeys == {[modulus |-> "m1", exponent |-> "e1"],
               [modulus |-> "m2", exponent |-> "e2"]}

VersionMaps == {[protocolVersion |-> "45"]}

EchoSeq(req) ==
    IF "seq" \in DOMAIN req.attrs THEN [seq |-> req.attrs.seq] ELSE EmptyMap

Replies(req) ==
    LET resp(attrs, children) ==
            [name |-> req.name \o "Resp", attrs |-> attrs, children |-> children]
    IN  CASE req.name = "Open" ->
               {resp([ommStick |-> "1"], <<[tag |-> "publicKey", attrs |-> k]>>)
                   : k \in PublicKeys}
               \cup {resp([errCode |-> "EAuth"], <<>>)}
          [] req.name = "GetVersions" -> {resp(v, <<>>) : v \in VersionMaps}
          [] req.name = "GetAccount"  -> {resp([id |-> req.attrs.id], <<>>)}
          [] req.name \in {"GetPPDev", "GetPPState"} ->
               {resp(EchoSeq(req), <<[tag |-> "pp", attrs |-> [ppn |-> req.attrs.ppn]]>>)}
          [] req.name = "GetPPUser" ->
               {resp(EchoSeq(req), <<[tag |-> "user", attrs |-> [uid |-> req.attrs.uid]]>>)}
          [] req.name = "SetPPUser" ->
               {resp(EchoSeq(req),
                     <<[tag |-> "user", attrs |-> [uid |-> req.children[1].attrs.uid]]>>),
                resp(EchoSeq(req) @@ [errCode |-> "EInval"], <<>>)}
          [] OTHER -> {resp(EchoSeq(req), <<>>)}

\* the numerals int() is applied to, and int(s) for a numeral s
Numerals == 0 .. (3 * MaxPages * MAX_RECORDS + MAX_RECORDS)

IsNumeral(s) == \E n \in Numerals : ToString(n) = s

int(s) == CHOOSE n \in Numerals : ToString(n) = s

\* the elements of a finite set of integers in ascending order
RECURSIVE Ascending(_)
Ascending(ids) ==
    IF ids = {} THEN <<>>
    ELSE LET least == CHOOSE i \in ids : \A j \in ids : i <= j
         IN  <<least>> \o Ascending(ids \ {least})

\* the record the peer keeps under an id, as the child element it sends
RecordElement(tag, idattr, id) == [tag |-> tag, attrs |-> (idattr :> ToString(id))]

\* the peer's answer to a page request over the record ids it holds: the
\* maxRecords lowest ids from the cursor on, in ascending order
PageReply(req, tag, idattr, ids) ==
    LET cursor   == int(req.attrs[idattr])
        limit    == int(req.attrs.maxRecords)
        eligible == Ascending({i \in ids : i >= cursor})
        n        == IF Len(eligible) < limit THEN Len(eligible) ELSE limit
    IN  [name     |-> req.name \o "Resp",
         attrs    |-> EchoSeq(req),
         children |-> [i \in 1..n |-> RecordElement(tag, idattr, eligible[i])]]

\* the replies of a peer that holds the record tables `records`
PeerReplies(records, req) ==
    IF "maxRecords" \in DOMAIN req.attrs
    THEN IF req.name = "GetPPDev"
         THEN {PageReply(req, "pp", "ppn", records.pp)}
         ELSE {PageReply(req, "user", "uid", records.user)}
    ELSE Replies(req)

\* the event types a Subscribe request on the wire has switched on
Subscribed(frames) ==
    {f[1].children[1].attrs.eventType :
        f \in {g \in Range(frames) : g[1].name = "Subscribe" /\ g[1].children # <<>>}}

EventFrame(eventType) ==
    [name |-> "Event" \o eventType, attrs |-> [state |-> "1"], children |-> <<>>]

(***************************************************************************)
(* State.                                                                  *)
(***************************************************************************)
VARIABLES
    \* class attributes of OMMClient, one object for all instances
    _events, _eventlock, _sequencelock,
    \* the threading.Event objects that are set
    isSet,
    \* instance attributes, one per client
    _sequence, _send_q, _recv_q, _terminate, _logged_in,
    _modulus, _exponent, omm_status, omm_versions,
    _worker, _ssl_socket,
    \* the event slots in the instance __dict__ and the calls made to them
    slots, handled,
    \* the peer: frames written to the socket, those answered, events pushed
    wire, answered, pushed,
    \* threads of control: position, remaining calls, locals of the call in
    \* progress, the exception that ended the thread, the last return value,
    \* the Event objects created
    pc, todo, local, raised, result, created,
    \* history: the values _get_sequence read, in the order the lock was taken
    issued,
    \* the generators of get_devices / get_users: records yielded so far, state
    generator,
    \* the peer: the record tables it holds, the reply frames it has sent in
    \* order, the bytes of them no recv has returned yet
    store, stream, pending,
    \* history: the envelopes the dispatcher has looked up, with the waiter
    \* each one fired
    routed,
    \* the codec applied to one input
    codec

vars == <<_events, _eventlock, _sequencelock, isSet,
          _sequence, _send_q, _recv_q, _terminate, _logged_in,
          _modulus, _exponent, omm_status, omm_versions, _worker, _ssl_socket,
          slots, handled, wire, answered, pushed,
          pc, todo, local, raised, result, created, issued,
          generator, store, stream, pending, routed, codec>>

codecVars == <<codec>>

auxVars == <<generator, store, stream, pending, routed, codecVars>>

classVars == <<_events, _eventlock, _sequencelock, isSet>>

sessionVars == <<_terminate, _logged_in, _modulus, _exponent,
                 omm_status, omm_versions, _worker, _ssl_socket>>

queueVars == <<_send_q, _recv_q>>

peerVars == <<wire, answered, pushed>>

Free == "free"

NoLocal == [op |-> "", arg |-> EmptyMap, outer |-> <<>>, sequence |-> 0,
            message |-> "", event |-> None, data |-> None, item |-> None]

NoGenerator == [op |-> "", state |-> "none", yielded |-> <<>>]

NoCodec == [input |-> None, text |-> None, output |-> None]

NoRecords == [pp |-> {}, user |-> {}]

\* __init__ (and the class body) for every client; `script` gives each caller
\* thread the calls it is going to make
InitWith(script) ==
    /\ _events = EmptyMap
    /\ _eventlock = Free
    /\ _sequencelock = Free
    /\ isSet = {}
    /\ _sequence = [c \in Clients |-> 0]
    /\ _send_q = [c \in Clients |-> <<>>]
    /\ _recv_q = [c \in Clients |-> <<>>]
    /\ _terminate = [c \in Clients |-> FALSE]
    /\ _logged_in = [c \in Clients |-> FALSE]
    /\ _modulus = [c \in Clients |-> None]
    /\ _exponent = [c \in Clients |-> None]
    /\ omm_status = [c \in Clients |-> EmptyMap]
    /\ omm_versions = [c \in Clients |-> EmptyMap]
    /\ _worker = [c \in Clients |-> "initial"]
    /\ _ssl_socket = [c \in Clients |-> "unconnected"]
    /\ slots = [c \in Clients |-> {}]
    /\ handled = [c \in Clients |-> <<>>]
    /\ wire = [c \in Clients |-> <<>>]
    /\ answered = [c \in Clients |-> {}]
    /\ pushed = [c \in Clients |-> 0]
    /\ pc = [x \in Threads |-> IF x \in Dispatchers THEN "initial" ELSE "idle"]
    /\ todo = [x \in Threads |-> IF x \in Callers THEN script[x] ELSE <<>>]
    /\ local = [x \in Threads |-> NoLocal]
    /\ raised = [x \in Threads |-> None]
    /\ result = [x \in Threads |-> None]
    /\ created = [x \in Threads |-> 0]
    /\ issued = [c \in Clients |-> <<>>]
    /\ generator = [x \in Threads |-> NoGenerator]
    /\ stream = [c \in Clients |-> <<>>]
    /\ pending = [c \in Clients |-> <<>>]
    /\ routed = [c \in Clients |-> <<>>]

\* the record tables the peer of every client holds
PeerHolds(records) == store = [c \in Clients |-> records]

(***************************************************************************)
(* Calls of the public commands by caller threads.                         *)
(***************************************************************************)
Raise(x, text) ==
    /\ pc' = [pc EXCEPT ![x] = "raised"]
    /\ raised' = [raised EXCEPT ![x] = Some(text)]

\* where a command's body starts
\* a command that starts without the login check
EntryUnguarded(op) ==
    IF Command(op).seq THEN "get_sequence" ELSE "sendrequest"

Entry(op) ==
    IF Command(op).guard THEN "ensure_login"
    ELSE IF Command(op).seq THEN "get_sequence" ELSE "sendrequest"

\* a caller thread invokes the next public method of its script
Call(x) ==
    /\ x \in Callers
    /\ pc[x] = "idle"
    /\ todo[x] # <<>>
    /\ LET call == Head(todo[x])
           op   == IF call.op = "getattr" THEN "subscribe_event" ELSE call.op
           c    == ClientOf(x)
       IN  /\ op = "set_user_pin" => _modulus[c] # None /\ _exponent[c] # None
           /\ todo' = [todo EXCEPT ![x] = Tail(@)]
           /\ local' = [local EXCEPT ![x] =
                  [NoLocal EXCEPT !.op = op,
                      !.arg = Bound(op, call.arg, _modulus[c], _exponent[c]),
                      !.outer = IF call.op = "getattr" THEN <<"getattr">> ELSE <<>>]]
           /\ pc' = [pc EXCEPT ![x] =
                  CASE call.op = "login"  -> "connect"
                    [] call.op = "logout" -> "logout"
                    [] call.op = "_get_sequence" -> "get_sequence"
                    [] OTHER -> Entry(op)]
           /\ generator' = [generator EXCEPT ![x] =
                  IF op \in Generators
                  THEN [op |-> op, state |-> "running", yielded |-> <<>>] ELSE @]
    /\ UNCHANGED <<store, stream, pending, routed, codecVars, issued, classVars,
                   _sequence, queueVars, sessionVars, slots, handled,
                   peerVars, raised, result, created>>

_ensure_login(x) ==
    /\ pc[x] = "ensure_login"
    /\ IF ~_logged_in[ClientOf(x)]
       THEN Raise(x, "OMMClient not logged in")
       ELSE /\ pc' = [pc EXCEPT ![x] =
                   IF Command(local[x].op).seq THEN "get_sequence" ELSE "sendrequest"]
            /\ UNCHANGED raised
    /\ UNCHANGED <<auxVars, issued, classVars, _sequence, queueVars, sessionVars, slots, handled,
                   peerVars, todo, local, result, created>>

(***************************************************************************)
(* _get_sequence: the body of `with self._sequencelock`.                   *)
(***************************************************************************)
\* a `with` statement that does not wait for the lock
SequenceLockIgnored(x) == TRUE

\* `with self._sequencelock:` lets a thread in when the lock is free
SequenceLockAdmits(x) == _sequencelock = Free

\* a counter that is not advanced
SameSequence(n) == n

\* self._sequence += 1
NextSequence(n) == n + 1

\* enter the lock; sequence = self._sequence
SequenceRead(x) ==
    /\ pc[x] = "get_sequence"
    /\ SequenceLockAdmits(x)
    /\ _sequencelock' = x
    /\ local' = [local EXCEPT ![x].sequence = _sequence[ClientOf(x)]]
    /\ pc' = [pc EXCEPT ![x] = "sequence_increment"]
    /\ issued' = [issued EXCEPT ![ClientOf(x)] = Append(@, _sequence[ClientOf(x)])]
    /\ UNCHANGED <<auxVars, _events, _eventlock, isSet, _sequence, queueVars, sessionVars,
                   slots, handled, peerVars, todo, raised, result, created>>

\* self._sequence += 1; leave the lock; return sequence
SequenceIncrement(x) ==
    /\ pc[x] = "sequence_increment"
    /\ _sequence' = [_sequence EXCEPT ![ClientOf(x)] = NextSequence(@)]
    /\ _sequencelock' = Free
    /\ IF local[x].op = "_get_sequence"
       THEN /\ pc' = [pc EXCEPT ![x] = "idle"]
            /\ result' = [result EXCEPT ![x] = Some(local[x].sequence)]
       ELSE /\ pc' = [pc EXCEPT ![x] = "sendrequest"]
            /\ UNCHANGED result
    /\ UNCHANGED <<auxVars, issued, _events, _eventlock, isSet, queueVars, sessionVars,
                   slots, handled, peerVars, todo, local, raised, created>>

(***************************************************************************)
(* _sendrequest and _awaitresponse.                                        *)
(***************************************************************************)
\* the key under which the response to (message, messagedata) is awaited
ResponseKey(message, messagedata) ==
    IF messagedata # None /\ "seq" \in DOMAIN messagedata[1]
    THEN message \o "Resp" \o str(messagedata[1].seq)
    ELSE message \o "Resp"

\* lines 102-106: build the envelope, put it on the send queue, form the key
\* a _sendrequest that writes the message to the socket itself
SendDirect(x) ==
    /\ pc[x] = "sendrequest"
    /\ LET c           == ClientOf(x)
           message     == Command(local[x].op).request
           messagedata == MessageData(local[x].op, local[x].arg, local[x].sequence)
           msg         == construct_message(message, messagedata,
                                            Children(local[x].op, local[x].arg))
       IN  /\ wire' = [wire EXCEPT ![c] = Append(@, msg \o <<NUL>>)]
           /\ local' = [local EXCEPT ![x].message = ResponseKey(message, messagedata)]
    /\ pc' = [pc EXCEPT ![x] = "awaitresponse"]
    /\ UNCHANGED <<auxVars, issued, classVars, _sequence, queueVars, sessionVars, slots,
                   handled, answered, pushed, todo, raised, result, created>>

_sendrequest(x) ==
    /\ pc[x] = "sendrequest"
    /\ LET c           == ClientOf(x)
           message     == Command(local[x].op).request
           messagedata == MessageData(local[x].op, local[x].arg, local[x].sequence)
           msg         == construct_message(message, messagedata,
                                            Children(local[x].op, local[x].arg))
       IN  /\ _send_q' = [_send_q EXCEPT ![c] = Append(@, msg)]
           /\ local' = [local EXCEPT ![x].message = ResponseKey(message, messagedata)]
    /\ pc' = [pc EXCEPT ![x] = "awaitresponse"]
    /\ UNCHANGED <<auxVars, issued, classVars, _sequence, _recv_q, sessionVars, slots, handled,
                   peerVars, todo, raised, result, created>>

\* lines 79-81: the unlocked membership test, then e = Event()
AwaitCheck(x) ==
    /\ pc[x] = "awaitresponse"
    /\ IF local[x].message \in DOMAIN _events
       THEN /\ Raise(x, "Already waiting for " \o local[x].message)
            /\ UNCHANGED <<local, created>>
       ELSE /\ created' = [created EXCEPT ![x] = @ + 1]
            /\ local' = [local EXCEPT ![x].event = Some(<<x, created[x] + 1>>)]
            /\ pc' = [pc EXCEPT ![x] = "register"]
            /\ UNCHANGED raised
    /\ UNCHANGED <<auxVars, issued, classVars, _sequence, queueVars, sessionVars, slots, handled,
                   peerVars, todo, result>>

\* lines 82-83: enter the event lock; self._events[message] = {}
AwaitRegister(x) ==
    /\ pc[x] = "register"
    /\ _eventlock = Free
    /\ _eventlock' = x
    /\ _events' = (local[x].message :> [event |-> None, response |-> None]) @@ _events
    /\ pc' = [pc EXCEPT ![x] = "register_event"]
    /\ UNCHANGED <<auxVars, issued, _sequencelock, isSet, _sequence, queueVars, sessionVars, slots,
                   handled, peerVars, todo, local, raised, result, created>>

\* line 84: self._events[message]["event"] = e; leave the event lock
AwaitRegisterEvent(x) ==
    /\ pc[x] = "register_event"
    /\ _events' = [_events EXCEPT ![local[x].message].event = local[x].event]
    /\ _eventlock' = Free
    /\ pc' = [pc EXCEPT ![x] = "wait"]
    /\ UNCHANGED <<auxVars, issued, _sequencelock, isSet, _sequence, queueVars, sessionVars, slots,
                   handled, peerVars, todo, local, raised, result, created>>

\* line 85, first half: look up self._events[message]["event"], unlocked
AwaitLookup(x) ==
    /\ pc[x] = "wait"
    /\ LET message == local[x].message
       IN  IF message \notin DOMAIN _events \/ _events[message].event = None
           THEN /\ Raise(x, "KeyError")
                /\ UNCHANGED local
           ELSE /\ local' = [local EXCEPT ![x].event = _events[message].event]
                /\ pc' = [pc EXCEPT ![x] = "blocked"]
                /\ UNCHANGED raised
    /\ UNCHANGED <<auxVars, issued, classVars, _sequence, queueVars, sessionVars, slots, handled,
                   peerVars, todo, result, created>>

\* a wait that also returns when a timeout runs out
AwaitWakeOrTimeout(x) ==
    /\ pc[x] = "blocked"
    /\ pc' = [pc EXCEPT ![x] = "parse"]
    /\ UNCHANGED <<auxVars, issued, classVars, _sequence, queueVars, sessionVars, slots, handled,
                   peerVars, todo, local, raised, result, created>>

\* line 85, second half: Event.wait() returns once that Event is set
AwaitWake(x) ==
    /\ pc[x] = "blocked"
    /\ local[x].event[1] \in isSet
    /\ pc' = [pc EXCEPT ![x] = "parse"]
    /\ UNCHANGED <<auxVars, issued, classVars, _sequence, queueVars, sessionVars, slots, handled,
                   peerVars, todo, local, raised, result, created>>

\* line 86: data = parse_message(self._events[message]["response"]), unlocked
AwaitParse(x) ==
    /\ pc[x] = "parse"
    /\ LET message == local[x].message
       IN  IF message \notin DOMAIN _events \/ _events[message].response = None
           THEN /\ Raise(x, "KeyError")
                /\ UNCHANGED local
           ELSE IF ~WellFormed(_events[message].response[1])
           THEN /\ Raise(x, "ExpatError")
                /\ UNCHANGED local
           ELSE /\ local' = [local EXCEPT ![x].data =
                        Some(parse_message(_events[message].response[1]))]
                /\ pc' = [pc EXCEPT ![x] = "pop"]
                /\ UNCHANGED raised
    /\ UNCHANGED <<auxVars, issued, classVars, _sequence, queueVars, sessionVars, slots, handled,
                   peerVars, todo, result, created>>

\* lines 87-89: under the event lock, self._events.pop(message); return data
\* an _awaitresponse that returns the data and leaves its key in the table
AwaitPopKeeps(x) ==
    /\ pc[x] = "pop"
    /\ _eventlock = Free
    /\ pc' = [pc EXCEPT ![x] = "return"]
    /\ UNCHANGED <<auxVars, issued, classVars, _sequence, queueVars,
                   sessionVars, slots, handled, peerVars, todo, local, raised, result, created>>

AwaitPop(x) ==
    /\ pc[x] = "pop"
    /\ _eventlock = Free
    /\ LET message == local[x].message
       IN  IF message \notin DOMAIN _events
           THEN /\ Raise(x, "KeyError")
                /\ UNCHANGED _events
           ELSE /\ _events' = [k \in DOMAIN _events \ {message} |-> _events[k]]
                /\ pc' = [pc EXCEPT ![x] = "return"]
                /\ UNCHANGED raised
    /\ UNCHANGED <<auxVars, issued, _eventlock, _sequencelock, isSet, _sequence, queueVars,
                   sessionVars, slots, handled, peerVars, todo, local, result, created>>

(***************************************************************************)
(* What a command does with the decoded response.                          *)
(***************************************************************************)
\* a command called by a caller thread returns (or raises on its response)
Return(x) ==
    /\ pc[x] = "return"
    /\ local[x].op \notin {"login"} \cup Generators
    /\ local[x].outer = <<>>
    /\ LET outcome == Outcome(local[x].op, local[x].arg, local[x].data[1])
       IN  IF "raise" \in DOMAIN outcome
           THEN /\ Raise(x, outcome.raise)
                /\ UNCHANGED <<result, local>>
           ELSE /\ result' = [result EXCEPT ![x] =
                        Some([value |-> outcome.value, response |-> local[x].data[1]])]
                /\ local' = [local EXCEPT ![x] = NoLocal]
                /\ pc' = [pc EXCEPT ![x] = "idle"]
                /\ UNCHANGED raised
    /\ UNCHANGED <<auxVars, issued, classVars, _sequence, queueVars, sessionVars, slots, handled,
                   peerVars, todo, created>>

\* a single record that is not taken as a page of one
AsListDropSingle(v) == IF "many" \in DOMAIN v THEN v.many ELSE <<>>

\* lines 316-317: if not isinstance(children['pp'], list): wrap it in a list
AsList(v) == IF "many" \in DOMAIN v THEN v.many ELSE <<v.one>>

\* a traversal that goes on after every page that holds a record
MorePagesIfAny(list) == Len(list) > 0

\* line 324: if len(children['pp']) == MAX_RECORDS
MorePages(list) == Len(list) = MAX_RECORDS

\* a cursor that stays on the last record
SameCursor(last) == last

\* line 326: start_ppn = int(children['pp'][-1]['ppn'])+1
NextCursor(last) == last + 1

\* get_devices / get_users, lines 309-328 and 376-395, once a page response is
\* back: stop on a response without records; else yield every record of the
\* page, and after a page of MAX_RECORDS records ask for the next page from
\* one past the last id, after any shorter page stop
PageReturn(x) ==
    /\ pc[x] = "return"
    /\ local[x].op \in Generators
    /\ LET op       == local[x].op
           tag      == Paged(op).tag
           idattr   == Paged(op).id
           children == local[x].data[1][3]
           empty    == \/ tag \notin DOMAIN children
                       \/ /\ "one" \in DOMAIN children[tag]
                          /\ children[tag].one = EmptyMap
           list     == IF empty THEN <<>> ELSE AsList(children[tag])
           more     == MorePages(list)
           last     == list[Len(list)]
       IN  IF more /\ idattr \notin DOMAIN last
           THEN /\ Raise(x, "KeyError")
                /\ generator' = [generator EXCEPT ![x].yielded = @ \o list]
                /\ UNCHANGED local
           ELSE IF more /\ ~IsNumeral(last[idattr])
           THEN /\ Raise(x, "ValueError")
                /\ generator' = [generator EXCEPT ![x].yielded = @ \o list]
                /\ UNCHANGED local
           ELSE IF more
           THEN /\ generator' = [generator EXCEPT ![x].yielded = @ \o list]
                /\ local' = [local EXCEPT ![x] =
                       [NoLocal EXCEPT
                           !.op = op,
                           !.arg = (Paged(op).cursor :> NextCursor(int(last[idattr])))]]
                /\ pc' = [pc EXCEPT ![x] = "get_sequence"]
                /\ UNCHANGED raised
           ELSE /\ generator' = [generator EXCEPT
                       ![x] = [@ EXCEPT !.state = "exhausted", !.yielded = @ \o list]]
                /\ local' = [local EXCEPT ![x] = NoLocal]
                /\ pc' = [pc EXCEPT ![x] = "idle"]
                /\ UNCHANGED raised
    /\ UNCHANGED <<store, stream, pending, routed, codecVars, issued, classVars,
                   _sequence, queueVars, sessionVars, slots, handled, peerVars,
                   todo, result, created>>

\* the slot name of an event type
Slot(eventType) == "on_" \o eventType

\* __getattr__, lines 67-70, after its subscribe_event returned: the event slot
\* is created in the instance __dict__; on the dispatcher thread the slot is
\* then called with the event being dispatched (line 725)
GetattrReturn(x) ==
    /\ pc[x] = "return"
    /\ local[x].outer = <<"getattr">>
    /\ LET c == ClientOf(x)
       IN  /\ slots' = [slots EXCEPT ![c] = @ \cup {Slot(local[x].arg.event)}]
           /\ IF x \in Dispatchers
              THEN /\ handled' = [handled EXCEPT ![c] =
                          Append(@, <<Slot(local[x].arg.event)>>
                                    \o SubSeq(parse_message(local[x].item[1]), 1, 2))]
                   /\ pc' = [pc EXCEPT ![x] = "d_top"]
              ELSE /\ pc' = [pc EXCEPT ![x] = "idle"]
                   /\ UNCHANGED handled
    /\ local' = [local EXCEPT ![x] = NoLocal]
    /\ result' = [result EXCEPT ![x] = None]
    /\ UNCHANGED <<auxVars, issued, classVars, _sequence, queueVars, sessionVars, peerVars,
                   todo, raised, created>>

(***************************************************************************)
(* login.                                                                  *)
(***************************************************************************)
\* line 139: self._ssl_socket.connect(...); a socket connects once
LoginConnect(x) ==
    /\ pc[x] = "connect"
    /\ IF _ssl_socket[ClientOf(x)] = "unconnected"
       THEN /\ _ssl_socket' = [_ssl_socket EXCEPT ![ClientOf(x)] = "connected"]
            /\ pc' = [pc EXCEPT ![x] = "start_worker"]
            /\ UNCHANGED raised
       ELSE /\ Raise(x, IF _ssl_socket[ClientOf(x)] = "closed"
                        THEN "OSError" ELSE "ValueError")
            /\ UNCHANGED _ssl_socket
    /\ UNCHANGED <<auxVars, issued, classVars, _sequence, queueVars, _terminate, _logged_in, _modulus,
                   _exponent, omm_status, omm_versions, _worker, slots, handled,
                   peerVars, todo, local, result, created>>

\* line 140: self._worker.start(); a Thread starts once
LoginStartWorker(x) ==
    /\ pc[x] = "start_worker"
    /\ IF _worker[ClientOf(x)] = "initial"
       THEN /\ _worker' = [_worker EXCEPT ![ClientOf(x)] = "top"]
            /\ pc' = [pc EXCEPT ![x] = "start_dispatcher"]
            /\ UNCHANGED raised
       ELSE /\ Raise(x, "RuntimeError")
            /\ UNCHANGED _worker
    /\ UNCHANGED <<auxVars, issued, classVars, _sequence, queueVars, _terminate, _logged_in, _modulus,
                   _exponent, omm_status, omm_versions, _ssl_socket, slots, handled,
                   peerVars, todo, local, result, created>>

\* line 141: self._dispatcher.start(); then line 142 calls _sendrequest("Open")
LoginStartDispatcher(x) ==
    /\ pc[x] = "start_dispatcher"
    /\ LET d == DispatcherOf(ClientOf(x))
       IN  IF pc[d] = "initial"
           THEN /\ pc' = [pc EXCEPT ![d] = "d_top", ![x] = "sendrequest"]
                /\ UNCHANGED raised
           ELSE Raise(x, "RuntimeError")
    /\ UNCHANGED <<auxVars, issued, classVars, _sequence, queueVars, sessionVars, slots, handled,
                   peerVars, todo, local, result, created>>

\* both fields read from the modulus attribute
PublicKeyModulusTwice(children) ==
    [modulus  |-> children["publicKey"].one["modulus"],
     exponent |-> children["publicKey"].one["modulus"]]

\* lines 143-144: the key material login reads from the Open response
PublicKeyIn(children) ==
    [modulus  |-> children["publicKey"].one["modulus"],
     exponent |-> children["publicKey"].one["exponent"]]

\* lines 142-145: the Open response is back; store the public key and the
\* status, then line 146 calls get_versions
LoginOpenReturned(x) ==
    /\ pc[x] = "return"
    /\ local[x].op = "login"
    /\ LET c          == ClientOf(x)
           attributes == local[x].data[1][2]
           children   == local[x].data[1][3]
       IN  IF "publicKey" \notin DOMAIN children
           THEN /\ Raise(x, "KeyError")
                /\ UNCHANGED <<_modulus, _exponent, omm_status, local>>
           ELSE IF "many" \in DOMAIN children["publicKey"]
           THEN /\ Raise(x, "TypeError")
                /\ UNCHANGED <<_modulus, _exponent, omm_status, local>>
           ELSE IF {"modulus", "exponent"} \ DOMAIN children["publicKey"].one # {}
           THEN /\ Raise(x, "KeyError")
                /\ UNCHANGED <<_modulus, _exponent, omm_status, local>>
           ELSE /\ _modulus' = [_modulus EXCEPT ![c] = Some(PublicKeyIn(children).modulus)]
                /\ _exponent' = [_exponent EXCEPT ![c] = Some(PublicKeyIn(children).exponent)]
                /\ omm_status' = [omm_status EXCEPT ![c] = attributes]
                /\ local' = [local EXCEPT ![x] =
                        [NoLocal EXCEPT !.op = "get_versions", !.outer = <<"login">>]]
                /\ pc' = [pc EXCEPT ![x] = "sendrequest"]
                /\ UNCHANGED raised
    /\ UNCHANGED <<auxVars, issued, classVars, _sequence, queueVars, _terminate, _logged_in,
                   omm_versions, _worker, _ssl_socket, slots, handled, peerVars,
                   todo, result, created>>

\* line 146: self.omm_versions = self.get_versions()
LoginVersions(x) ==
    /\ pc[x] = "return"
    /\ local[x].outer = <<"login">>
    /\ omm_versions' = [omm_versions EXCEPT ![ClientOf(x)] =
           Outcome(local[x].op, local[x].arg, local[x].data[1]).value[1]]
    /\ pc' = [pc EXCEPT ![x] = "logged_in"]
    /\ UNCHANGED <<auxVars, issued, classVars, _sequence, queueVars, _terminate, _logged_in, _modulus,
                   _exponent, omm_status, _worker, _ssl_socket, slots, handled,
                   peerVars, todo, local, raised, result, created>>

\* line 147: self._logged_in = True
LoginDone(x) ==
    /\ pc[x] = "logged_in"
    /\ _logged_in' = [_logged_in EXCEPT ![ClientOf(x)] = TRUE]
    /\ local' = [local EXCEPT ![x] = NoLocal]
    /\ result' = [result EXCEPT ![x] = None]
    /\ pc' = [pc EXCEPT ![x] = "idle"]
    /\ UNCHANGED <<auxVars, issued, classVars, _sequence, queueVars, _terminate, _modulus, _exponent,
                   omm_status, omm_versions, _worker, _ssl_socket, slots, handled,
                   peerVars, todo, raised, created>>

(***************************************************************************)
(* logout.                                                                 *)
(***************************************************************************)
\* line 741: self._logged_in = False
LogoutFlag(x) ==
    /\ pc[x] = "logout"
    /\ _logged_in' = [_logged_in EXCEPT ![ClientOf(x)] = FALSE]
    /\ pc' = [pc EXCEPT ![x] = "terminate"]
    /\ UNCHANGED <<auxVars, issued, classVars, _sequence, queueVars, _terminate, _modulus, _exponent,
                   omm_status, omm_versions, _worker, _ssl_socket, slots, handled,
                   peerVars, todo, local, raised, result, created>>

\* line 742: self._terminate = True
LogoutTerminate(x) ==
    /\ pc[x] = "terminate"
    /\ _terminate' = [_terminate EXCEPT ![ClientOf(x)] = TRUE]
    /\ pc' = [pc EXCEPT ![x] = "join_worker"]
    /\ UNCHANGED <<auxVars, issued, classVars, _sequence, queueVars, _logged_in, _modulus, _exponent,
                   omm_status, omm_versions, _worker, _ssl_socket, slots, handled,
                   peerVars, todo, local, raised, result, created>>

\* a join that does not wait
JoinSkipped(at) == TRUE

\* Thread.join() returns once the thread, whose position is `at`, has ended
Joined(at) == at \in {"exited", "raised"}

\* line 743: self._worker.join()
LogoutJoinWorker(x) ==
    /\ pc[x] = "join_worker"
    /\ IF _worker[ClientOf(x)] = "initial"
       THEN Raise(x, "RuntimeError")
       ELSE /\ Joined(_worker[ClientOf(x)])
            /\ pc' = [pc EXCEPT ![x] = "join_dispatcher"]
            /\ UNCHANGED raised
    /\ UNCHANGED <<auxVars, issued, classVars, _sequence, queueVars, sessionVars, slots, handled,
                   peerVars, todo, local, result, created>>

\* line 744: self._dispatcher.join()
LogoutJoinDispatcher(x) ==
    /\ pc[x] = "join_dispatcher"
    /\ IF pc[DispatcherOf(ClientOf(x))] = "initial"
       THEN Raise(x, "RuntimeError")
       ELSE /\ Joined(pc[DispatcherOf(ClientOf(x))])
            /\ pc' = [pc EXCEPT ![x] = "close"]
            /\ UNCHANGED raised
    /\ UNCHANGED <<auxVars, issued, classVars, _sequence, queueVars, sessionVars, slots, handled,
                   peerVars, todo, local, result, created>>

\* a close that resets the client in place: a new socket, the flag cleared
LogoutCloseResets(x) ==
    /\ pc[x] = "close"
    /\ _ssl_socket' = [_ssl_socket EXCEPT ![ClientOf(x)] = "unconnected"]
    /\ _terminate' = [_terminate EXCEPT ![ClientOf(x)] = FALSE]
    /\ local' = [local EXCEPT ![x] = NoLocal]
    /\ result' = [result EXCEPT ![x] = None]
    /\ pc' = [pc EXCEPT ![x] = "idle"]
    /\ UNCHANGED <<auxVars, issued, classVars, _sequence, queueVars, _logged_in, _modulus,
                   _exponent, omm_status, omm_versions, _worker, slots, handled,
                   peerVars, todo, raised, created>>

\* line 745: self._ssl_socket.close()
LogoutClose(x) ==
    /\ pc[x] = "close"
    /\ _ssl_socket' = [_ssl_socket EXCEPT ![ClientOf(x)] = "closed"]
    /\ local' = [local EXCEPT ![x] = NoLocal]
    /\ result' = [result EXCEPT ![x] = None]
    /\ pc' = [pc EXCEPT ![x] = "idle"]
    /\ UNCHANGED <<auxVars, issued, classVars, _sequence, queueVars, _terminate, _logged_in, _modulus,
                   _exponent, omm_status, omm_versions, _worker, slots, handled,
                   peerVars, todo, raised, created>>

(***************************************************************************)
(* The transport pump, _work, on the thread self._worker.                  *)
(***************************************************************************)
\* lines 704-709: the loop test, then at most one queued item is written,
\* followed by the delimiter; a send on a socket that is not connected raises
\* a pump that writes the message queued last
PumpSendLast(c) ==
    /\ _worker[c] = "top"
    /\ IF _terminate[c]
       THEN /\ _worker' = [_worker EXCEPT ![c] = "exited"]
            /\ UNCHANGED <<_send_q, wire>>
       ELSE IF _send_q[c] = <<>>
       THEN /\ _worker' = [_worker EXCEPT ![c] = "recv"]
            /\ UNCHANGED <<_send_q, wire>>
       ELSE /\ wire' = [wire EXCEPT ![c] =
                   Append(@, _send_q[c][Len(_send_q[c])] \o <<NUL>>)]
            /\ _send_q' = [_send_q EXCEPT ![c] = SubSeq(@, 1, Len(@) - 1)]
            /\ _worker' = [_worker EXCEPT ![c] = "recv"]
    /\ UNCHANGED <<auxVars, issued, classVars, _sequence, _recv_q, _terminate, _logged_in,
                   _modulus, _exponent, omm_status, omm_versions, _ssl_socket, slots,
                   handled, answered, pushed, pc, todo, local, raised, result, created>>

PumpSend(c) ==
    /\ _worker[c] = "top"
    /\ IF _terminate[c]
       THEN /\ _worker' = [_worker EXCEPT ![c] = "exited"]
            /\ UNCHANGED <<_send_q, wire>>
       ELSE IF _send_q[c] = <<>>
       THEN /\ _worker' = [_worker EXCEPT ![c] = "recv"]
            /\ UNCHANGED <<_send_q, wire>>
       ELSE IF _ssl_socket[c] # "connected"
       THEN /\ _worker' = [_worker EXCEPT ![c] = "raised"]
            /\ _send_q' = [_send_q EXCEPT ![c] = Tail(@)]
            /\ UNCHANGED wire
       ELSE /\ wire' = [wire EXCEPT ![c] = Append(@, Head(_send_q[c]) \o <<NUL>>)]
            /\ _send_q' = [_send_q EXCEPT ![c] = Tail(@)]
            /\ _worker' = [_worker EXCEPT ![c] = "recv"]
    /\ UNCHANGED <<auxVars, issued, classVars, _sequence, _recv_q, _terminate, _logged_in, _modulus,
                   _exponent, omm_status, omm_versions, _ssl_socket, slots, handled,
                   answered, pushed, pc, todo, local, raised, result, created>>

\* the frames on the wire the peer has not answered yet
Unanswered(c) == DOMAIN wire[c] \ answered[c]

\* a recv without timeout: it raises on a socket that is not connected and
\* otherwise does not return while the peer sends nothing
RecvBlocks(c) ==
    /\ _worker[c] = "recv"
    /\ _ssl_socket[c] # "connected"
    /\ _worker' = [_worker EXCEPT ![c] = "raised"]
    /\ UNCHANGED <<auxVars, issued, classVars, _sequence, queueVars, _terminate, _logged_in,
                   _modulus, _exponent, omm_status, omm_versions, _ssl_socket, slots,
                   handled, peerVars, pc, todo, local, raised, result, created>>

\* lines 710-714: recv raises on a socket that is not connected, and times
\* out when the peer has sent nothing
PumpTimeout(c) ==
    /\ _worker[c] = "recv"
    /\ _worker' = [_worker EXCEPT ![c] =
           IF _ssl_socket[c] # "connected" THEN "raised" ELSE "top"]
    /\ UNCHANGED <<auxVars, issued, classVars, _sequence, queueVars, _terminate, _logged_in, _modulus,
                   _exponent, omm_status, omm_versions, _ssl_socket, slots, handled,
                   peerVars, pc, todo, local, raised, result, created>>

\* lines 710-716: recv returns the peer's reply to one of the requests it has
\* not answered yet, in any order; it goes on the receive queue
PumpRecvReply(c) ==
    /\ _worker[c] = "recv"
    /\ _ssl_socket[c] = "connected"
    /\ pending[c] = <<>>
    /\ \E i \in Unanswered(c) :
          \E reply \in PeerReplies(store[c], wire[c][i][1]) :
             /\ answered' = [answered EXCEPT ![c] = @ \cup {i}]
             /\ stream' = [stream EXCEPT ![c] = Append(@, reply)]
             /\ _recv_q' = [_recv_q EXCEPT ![c] = Append(@, <<reply, NUL>>)]
    /\ _worker' = [_worker EXCEPT ![c] = "top"]
    /\ UNCHANGED <<generator, store, pending, routed, codecVars, issued, classVars, _sequence, _send_q, _terminate, _logged_in, _modulus,
                   _exponent, omm_status, omm_versions, _ssl_socket, slots, handled,
                   wire, pushed, pc, todo, local, raised, result, created>>

\* lines 710-716: recv returns an event frame the peer pushes for an event
\* type that a Subscribe request has switched on
PumpRecvEvent(c) ==
    /\ _worker[c] = "recv"
    /\ _ssl_socket[c] = "connected"
    /\ pushed[c] < MaxEvents
    /\ pending[c] = <<>>
    /\ \E eventType \in Subscribed(wire[c]) :
          /\ stream' = [stream EXCEPT ![c] = Append(@, EventFrame(eventType))]
          /\ _recv_q' = [_recv_q EXCEPT ![c] = Append(@, <<EventFrame(eventType), NUL>>)]
    /\ pushed' = [pushed EXCEPT ![c] = @ + 1]
    /\ _worker' = [_worker EXCEPT ![c] = "top"]
    /\ UNCHANGED <<generator, store, pending, routed, codecVars, issued, classVars, _sequence, _send_q, _terminate, _logged_in, _modulus,
                   _exponent, omm_status, omm_versions, _ssl_socket, slots, handled,
                   wire, answered, pc, todo, local, raised, result, created>>

(***************************************************************************)
(* The socket as a byte stream and as a connection that may fail: reads    *)
(* that do not end on a frame boundary, a frame that is no document, and   *)
(* the loss of the connection.  These steps belong to SpecIO.              *)
(***************************************************************************)
\* the two parts of a frame that a read boundary cuts
FirstPart(frame) == [part |-> 1, of |-> frame]

SecondPart(frame) == [part |-> 2, of |-> frame]

\* the content of a frame that is not a document
Malformed == [garbage |-> TRUE]

\* lines 710-716: recv returns only the first part of the peer's reply to a
\* request; the rest of the frame stays in the socket
PumpRecvSplit(c) ==
    /\ _worker[c] = "recv"
    /\ _ssl_socket[c] = "connected"
    /\ pending[c] = <<>>
    /\ \E i \in Unanswered(c) :
          \E reply \in PeerReplies(store[c], wire[c][i][1]) :
             /\ answered' = [answered EXCEPT ![c] = @ \cup {i}]
             /\ stream' = [stream EXCEPT ![c] = Append(@, reply)]
             /\ _recv_q' = [_recv_q EXCEPT ![c] = Append(@, <<FirstPart(reply)>>)]
             /\ pending' = [pending EXCEPT ![c] = <<SecondPart(reply), NUL>>]
    /\ _worker' = [_worker EXCEPT ![c] = "top"]
    /\ UNCHANGED <<generator, store, routed, codecVars, issued, classVars, _sequence,
                   _send_q, _terminate, _logged_in,
                   _modulus, _exponent, omm_status, omm_versions, _ssl_socket, slots, handled, wire, pushed,
                   pc, todo, local, raised, result, created>>

\* lines 710-716: recv returns the rest of a frame
PumpRecvRest(c) ==
    /\ _worker[c] = "recv"
    /\ _ssl_socket[c] = "connected"
    /\ pending[c] # <<>>
    /\ _recv_q' = [_recv_q EXCEPT ![c] = Append(@, pending[c])]
    /\ pending' = [pending EXCEPT ![c] = <<>>]
    /\ _worker' = [_worker EXCEPT ![c] = "top"]
    /\ UNCHANGED <<generator, store, stream, routed, codecVars, issued, classVars,
                   _sequence, _send_q, _terminate, _logged_in,
                   _modulus, _exponent, omm_status, omm_versions, _ssl_socket, slots, handled, peerVars,
                   pc, todo, local, raised, result, created>>

\* lines 710-716: recv returns the peer's replies to two requests at once
PumpRecvCoalesced(c) ==
    /\ _worker[c] = "recv"
    /\ _ssl_socket[c] = "connected"
    /\ pending[c] = <<>>
    /\ \E i, j \in Unanswered(c) :
          /\ i # j
          /\ \E first \in PeerReplies(store[c], wire[c][i][1]),
                second \in PeerReplies(store[c], wire[c][j][1]) :
                /\ answered' = [answered EXCEPT ![c] = @ \cup {i, j}]
                /\ stream' = [stream EXCEPT ![c] = @ \o <<first, second>>]
                /\ _recv_q' = [_recv_q EXCEPT ![c] =
                       Append(@, <<first, NUL, second, NUL>>)]
    /\ _worker' = [_worker EXCEPT ![c] = "top"]
    /\ UNCHANGED <<generator, store, pending, routed, codecVars, issued, classVars,
                   _sequence, _send_q, _terminate, _logged_in,
                   _modulus, _exponent, omm_status, omm_versions, _ssl_socket, slots, handled, wire, pushed,
                   pc, todo, local, raised, result, created>>

\* lines 710-716: recv returns a delimiter-terminated frame that is not a
\* document; the peer sends at most one per connection
PumpRecvMalformed(c) ==
    /\ _worker[c] = "recv"
    /\ _ssl_socket[c] = "connected"
    /\ pending[c] = <<>>
    /\ Malformed \notin Range(stream[c])
    /\ stream' = [stream EXCEPT ![c] = Append(@, Malformed)]
    /\ _recv_q' = [_recv_q EXCEPT ![c] = Append(@, <<Malformed, NUL>>)]
    /\ _worker' = [_worker EXCEPT ![c] = "top"]
    /\ UNCHANGED <<generator, store, pending, routed, codecVars, issued, classVars,
                   _sequence, _send_q, _terminate, _logged_in,
                   _modulus, _exponent, omm_status, omm_versions, _ssl_socket, slots, handled, peerVars,
                   pc, todo, local, raised, result, created>>

\* the connection breaks: every later send or recv on the socket raises
ConnectionLost(c) ==
    /\ _ssl_socket[c] = "connected"
    /\ _ssl_socket' = [_ssl_socket EXCEPT ![c] = "broken"]
    /\ UNCHANGED <<auxVars, issued, classVars, _sequence, queueVars, _terminate,
                   _logged_in, _modulus, _exponent, omm_status, omm_versions, _worker,
                   slots, handled, peerVars, pc, todo, local, raised, result, created>>

(***************************************************************************)
(* The dispatcher, _dispatch, on the thread self._dispatcher.              *)
(***************************************************************************)
\* lines 719-720: the loop test, then sleep
DispatchLoop(x) ==
    /\ x \in Dispatchers
    /\ pc[x] = "d_top"
    /\ pc' = [pc EXCEPT ![x] = IF _terminate[ClientOf(x)] THEN "exited" ELSE "d_poll"]
    /\ UNCHANGED <<auxVars, issued, classVars, _sequence, queueVars, sessionVars, slots, handled,
                   peerVars, todo, local, raised, result, created>>

\* the name under which _dispatch looks a decoded envelope up
DispatchKey(message, attributes) ==
    IF "seq" \in DOMAIN attributes THEN message \o attributes["seq"] ELSE message

\* the event envelopes _dispatch hands to an event slot
IsEvent(message) == message = "EventDECTSubscriptionMode"

\* lines 721-728: take one item off the receive queue and decode it; an event
\* envelope goes to its slot (an attribute lookup that runs __getattr__ when
\* the slot is not in the instance __dict__ yet), any other is looked up next
DispatchPoll(x) ==
    /\ x \in Dispatchers
    /\ pc[x] = "d_poll"
    /\ LET c == ClientOf(x)
       IN  IF _recv_q[c] = <<>>
           THEN /\ pc' = [pc EXCEPT ![x] = "d_top"]
                /\ UNCHANGED <<_recv_q, handled, local, raised>>
           ELSE LET item == Head(_recv_q[c])
                IN  /\ _recv_q' = [_recv_q EXCEPT ![c] = Tail(@)]
                    /\ IF ~WellFormed(item)
                       THEN /\ Raise(x, "ExpatError")
                            /\ UNCHANGED <<handled, local>>
                       ELSE LET message    == parse_message(item)[1]
                                attributes == parse_message(item)[2]
                                eventType  == "DECTSubscriptionMode"
                            IN  IF IsEvent(message)
                                THEN IF Slot(eventType) \in slots[c]
                                     THEN /\ handled' = [handled EXCEPT ![c] =
                                                 Append(@, <<Slot(eventType), message, attributes>>)]
                                          /\ pc' = [pc EXCEPT ![x] = "d_top"]
                                          /\ UNCHANGED <<local, raised>>
                                     ELSE /\ local' = [local EXCEPT ![x] =
                                                 [NoLocal EXCEPT
                                                     !.op = "subscribe_event",
                                                     !.arg = [event |-> eventType],
                                                     !.outer = <<"getattr">>,
                                                     !.item = Some(item)]]
                                          /\ pc' = [pc EXCEPT ![x] = Entry("subscribe_event")]
                                          /\ UNCHANGED <<handled, raised>>
                                ELSE /\ local' = [local EXCEPT ![x] =
                                            [NoLocal EXCEPT
                                                !.message = DispatchKey(message, attributes),
                                                !.item = Some(item)]]
                                     /\ pc' = [pc EXCEPT ![x] = "d_store"]
                                     /\ UNCHANGED <<handled, raised>>
    /\ UNCHANGED <<auxVars, issued, classVars, _sequence, _send_q, sessionVars, slots, peerVars,
                   todo, result, created>>

\* a store that keeps the response of a key nobody waits for
StoredAlways(table, message, item) ==
    IF message \in DOMAIN table
    THEN [table EXCEPT ![message].response = item]
    ELSE (message :> [event |-> None, response |-> item]) @@ table

\* lines 730-731: the table after `if message in self._events:
\* self._events[message]["response"] = item`
Stored(table, message, item) ==
    IF message \in DOMAIN table
    THEN [table EXCEPT ![message].response = item]
    ELSE table

\* lines 729-732: under the event lock, a waiter registered under the key gets
\* the raw item as its response and its Event is set
DispatchStore(x) ==
    /\ x \in Dispatchers
    /\ pc[x] = "d_store"
    /\ _eventlock = Free
    /\ LET message == local[x].message
       IN  /\ _events' = Stored(_events, message, local[x].item)
           /\ isSet' = IF message \in DOMAIN _events
                       THEN isSet \cup {_events[message].event[1]}
                       ELSE isSet
    /\ routed' = [routed EXCEPT ![ClientOf(x)] =
           Append(@, [envelope |-> rstrip(local[x].item[1])[1],
                      waiter   |-> IF local[x].message \in DOMAIN _events
                                   THEN _events[local[x].message].event
                                   ELSE None])]
    /\ local' = [local EXCEPT ![x] = NoLocal]
    /\ pc' = [pc EXCEPT ![x] = "d_top"]
    /\ UNCHANGED <<generator, store, stream, pending, codecVars, issued, _eventlock, _sequencelock, _sequence, queueVars, sessionVars,
                   slots, handled, peerVars, todo, raised, result, created>>

(***************************************************************************)
(* The session: every thread of every client.                              *)
(***************************************************************************)
CallerStep(x) ==
    \/ Call(x)
    \/ _ensure_login(x)
    \/ SequenceRead(x)
    \/ SequenceIncrement(x)
    \/ _sendrequest(x)
    \/ AwaitCheck(x)
    \/ AwaitRegister(x)
    \/ AwaitRegisterEvent(x)
    \/ AwaitLookup(x)
    \/ AwaitWake(x)
    \/ AwaitParse(x)
    \/ AwaitPop(x)
    \/ Return(x)
    \/ PageReturn(x)
    \/ GetattrReturn(x)

LifecycleStep(x) ==
    \/ LoginConnect(x)
    \/ LoginStartWorker(x)
    \/ LoginStartDispatcher(x)
    \/ LoginOpenReturned(x)
    \/ LoginVersions(x)
    \/ LoginDone(x)
    \/ LogoutFlag(x)
    \/ LogoutTerminate(x)
    \/ LogoutJoinWorker(x)
    \/ LogoutJoinDispatcher(x)
    \/ LogoutClose(x)

PumpStep(c) ==
    \/ PumpSend(c)
    \/ PumpTimeout(c)
    \/ PumpRecvReply(c)
    \/ PumpRecvEvent(c)

DispatcherStep(x) ==
    \/ DispatchLoop(x)
    \/ DispatchPoll(x)
    \/ DispatchStore(x)

Next ==
    \/ \E x \in Threads : CallerStep(x)
    \/ \E x \in Threads : LifecycleStep(x)
    \/ \E c \in Clients : PumpStep(c)
    \/ \E x \in Threads : DispatcherStep(x)

(***************************************************************************)
(* Scripts: the calls each caller thread makes.                            *)
(***************************************************************************)
Idle == [x \in Callers |-> <<>>]

Do(op, arg) == [op |-> op, arg |-> arg]

Login == Do("login", [user |-> "admin", password |-> "pw", ommsync |-> FALSE])

Logout == Do("logout", EmptyMap)

\* one thread drives a session through its life
LifeScripts ==
    {[Idle EXCEPT !["a1"] = <<Login, Do("getattr", [event |-> "HealthState"]),
                              Do("ping", EmptyMap), Logout, Login>>]}

\* two threads issue commands that await the same key
SameKeyScripts ==
    {[Idle EXCEPT !["a1"] = <<Login>>,
                  !["a2"] = <<Do("get_account", [uid |-> 1])>>,
                  !["a3"] = <<Do("get_account", [uid |-> 2])>>]}

\* two threads issue commands that await different keys
OtherKeyScripts ==
    {[Idle EXCEPT !["a1"] = <<Login>>,
                  !["a2"] = <<Do("get_device_state", [ppn |-> 1])>>,
                  !["a3"] = <<Do("get_device_state", [ppn |-> 2])>>]}

\* a command on a client that never logged in
NoLoginScripts ==
    {[Idle EXCEPT !["a1"] = <<Do("get_device", [ppn |-> 1])>>]}

\* two client objects in one process
TwoClientScripts ==
    {[Idle EXCEPT !["a1"] = <<Do("get_versions", EmptyMap)>>,
                  !["b1"] = <<Login>>]}

\* threads that draw sequence numbers
SequenceScripts ==
    {[x \in Callers |-> [i \in 1..MaxSeqCalls |-> Do("_get_sequence", EmptyMap)]]}

\* one thread logs in and walks through all device or all user records
PageScript(op) == [Idle EXCEPT !["a1"] = <<Login, Do(op, (Paged(op).cursor :> 0))>>]

\* the record ids the peer may hold: a number of ids around the page size,
\* counted from `first` in steps of `step`
RecordCounts == {0, 1, 2, MAX_RECORDS - 1, MAX_RECORDS, MAX_RECORDS + 1,
                 MaxPages * MAX_RECORDS}

Ids(count, first, step) == {first + step * i : i \in 0..(count - 1)}

RecordIds == {Ids(count, 1, 1) : count \in RecordCounts}
             \cup {Ids(count, 0, 3) : count \in RecordCounts}

\* the ids of the table that is not walked through
OtherIds == {5, 6}

Stores(op) ==
    {IF op = "get_devices" THEN [pp |-> ids, user |-> OtherIds]
                           ELSE [pp |-> OtherIds, user |-> ids] : ids \in RecordIds}

\* one thread logs in and sets the same pin of the same user twice
SetPin == Do("set_user_pin", [uid |-> 1, pin |-> "1234"])

PinScripts == {[Idle EXCEPT !["a1"] = <<Login, SetPin, SetPin>>]}

\* one thread logs in and pings twice: the second call awaits the key of
\* the first
PingScripts ==
    {[Idle EXCEPT !["a1"] = <<Login, Do("ping", EmptyMap), Do("ping", EmptyMap)>>]}

\* one thread logs in, reads the on_DECTSubscriptionMode slot and pings,
\* while the peer pushes the event
EventScripts ==
    {[Idle EXCEPT !["a1"] = <<Login, Do("getattr", [event |-> "DECTSubscriptionMode"]),
                              Do("ping", EmptyMap)>>]}

\* the commands that call _ensure_login, with arguments
GuardedCalls ==
    {Do("get_account", [uid |-> 1]),
     Do("subscribe_event", [event |-> "DECTSubscriptionMode"]),
     Do("get_sari", EmptyMap),
     Do("get_systemname", EmptyMap),
     Do("get_limits", EmptyMap),
     Do("ping", EmptyMap),
     Do("delete_user", [uid |-> 1]),
     Do("delete_device", [ppid |-> 1]),
     Do("get_device_state", [ppn |-> 1])}

\* a guarded command on a client that never logged in, and one on a client
\* that has logged out after a command that took a sequence number
RejectScripts ==
    {[Idle EXCEPT !["a1"] = <<call>>] : call \in GuardedCalls}
    \cup {[Idle EXCEPT !["a1"] = <<Login, Do("get_device_state", [ppn |-> 1]),
                                   Logout, call>>] :
              call \in {Do("delete_device", [ppid |-> 1]), Do("get_sari", EmptyMap)}}

Scripts == LifeScripts \cup SameKeyScripts \cup OtherKeyScripts \cup PinScripts
           \cup PingScripts \cup EventScripts \cup RejectScripts
           \cup NoLoginScripts \cup TwoClientScripts \cup SequenceScripts

Init ==
    /\ codec = NoCodec
    /\ \/ \E script \in Scripts : InitWith(script) /\ PeerHolds(NoRecords)
       \/ \E op \in Generators : \E records \in Stores(op) :
             InitWith(PageScript(op)) /\ PeerHolds(records)

Spec == Init /\ [][Next]_vars

(***************************************************************************)
(* A session over a socket that cuts the stream anywhere and may fail:     *)
(* one thread logs in, two threads issue commands with different keys.     *)
(***************************************************************************)
InitIO ==
    /\ codec = NoCodec
    /\ PeerHolds(NoRecords)
    /\ \E script \in OtherKeyScripts : InitWith(script)

NextIO ==
    \/ \E x \in Callers :
          \/ Call(x)
          \/ _ensure_login(x)
          \/ SequenceRead(x)
          \/ SequenceIncrement(x)
          \/ _sendrequest(x)
          \/ AwaitCheck(x)
          \/ AwaitRegister(x)
          \/ AwaitRegisterEvent(x)
          \/ AwaitLookup(x)
          \/ AwaitWake(x)
          \/ AwaitParse(x)
          \/ AwaitPop(x)
          \/ Return(x)
          \/ LoginConnect(x)
          \/ LoginStartWorker(x)
          \/ LoginStartDispatcher(x)
          \/ LoginOpenReturned(x)
          \/ LoginVersions(x)
          \/ LoginDone(x)
    \/ \E c \in Clients :
          \/ PumpSend(c)
          \/ PumpTimeout(c)
          \/ PumpRecvReply(c)
          \/ PumpRecvSplit(c)
          \/ PumpRecvRest(c)
          \/ PumpRecvCoalesced(c)
          \/ PumpRecvMalformed(c)
          \/ ConnectionLost(c)
    \/ \E x \in Dispatchers : DispatcherStep(x)

SpecIO == InitIO /\ [][NextIO]_vars

(***************************************************************************)
(* Teardown under fair scheduling: one thread logs in and logs out while   *)
(* another thread issues a command; every thread that can take a step      *)
(* eventually takes one.                                                   *)
(***************************************************************************)
TeardownScripts ==
    {[Idle EXCEPT !["a1"] = <<Login, Logout>>,
                  !["a2"] = <<Do("get_device_state", [ppn |-> 1])>>]}

InitTeardown ==
    /\ codec = NoCodec
    /\ PeerHolds(NoRecords)
    /\ \E script \in TeardownScripts : InitWith(script)

\* a step of a thread in a command, in login or in logout
CallStep(x) ==
    \/ Call(x)
    \/ _ensure_login(x)
    \/ SequenceRead(x)
    \/ SequenceIncrement(x)
    \/ _sendrequest(x)
    \/ AwaitCheck(x)
    \/ AwaitRegister(x)
    \/ AwaitRegisterEvent(x)
    \/ AwaitLookup(x)
    \/ AwaitWake(x)
    \/ AwaitParse(x)
    \/ AwaitPop(x)
    \/ Return(x)
    \/ LifecycleStep(x)

\* a turn of _work on a socket over which the peer sends responses only
ResponsePumpStep(c) ==
    \/ PumpSend(c)
    \/ PumpTimeout(c)
    \/ PumpRecvReply(c)

NextTeardown ==
    \/ \E x \in Threads : CallStep(x)
    \/ \E c \in Clients : ResponsePumpStep(c)
    \/ \E x \in Threads : DispatcherStep(x)

\* the scheduler lets every thread run: a thread that can take a step, and
\* stays able to, takes one
Fairness ==
    /\ \A x \in Threads : WF_vars(CallStep(x))
    /\ \A c \in Clients : WF_vars(ResponsePumpStep(c))
    /\ \A x \in Threads : WF_vars(DispatcherStep(x))

SpecTeardown == InitTeardown /\ [][NextTeardown]_vars /\ Fairness

(***************************************************************************)
(* The codec alone: construct_message applied to a name, an attribute dict *)
(* and a children dict, and parse_message applied to the text it returns   *)
(* or to a document received.                                              *)
(***************************************************************************)
CodecNames == {"Ping", "SetPPUser"}

CodecAttributes ==
    {EmptyMap, [seq |-> PyInt(7)], [seq |-> PyStr("7"), uid |-> PyInt(2)]}

CodecChildAttributes ==
    {EmptyMap, [uid |-> PyInt(1), pin |-> PyStr("x")], [ppn |-> PyStr("3")]}

CodecTags == {"user", "pp"}

\* the orders in which a dict may hold the keys `keys`
Orders(keys) ==
    {order \in [1..Cardinality(keys) -> keys] :
        \A i, j \in DOMAIN order : order[i] = order[j] => i = j}

\* the children dicts: child tag -> attribute dict, with their key order
CodecChildren ==
    UNION {{[order |-> order, map |-> map] :
               order \in Orders(tags), map \in [tags -> CodecChildAttributes]}
           : tags \in SUBSET CodecTags}

\* the arguments of construct_message
CodecInputs ==
    [name       : CodecNames,
     attributes : {None} \cup {Some(a) : a \in CodecAttributes},
     children   : {None} \cup {Some(ch) : ch \in CodecChildren}]

\* documents as they may be received: up to MaxElems child elements, tags
\* repeated or not
CodecElements == [tag : CodecTags, attrs : {[ppn |-> "1"], [ppn |-> "2"]}]

CodecDocuments ==
    UNION {[name : {"GetPPDevResp"}, attrs : {[seq |-> "7"]},
            children : [1..n -> CodecElements]] : n \in 0..MaxElems}

CodecInit ==
    /\ InitWith(Idle)
    /\ PeerHolds(NoRecords)
    /\ \/ \E input \in CodecInputs :
             codec = [NoCodec EXCEPT !.input = Some(input)]
       \/ \E document \in CodecDocuments :
             codec = [NoCodec EXCEPT !.text = Some(<<document, NUL>>)]

\* construct_message(name, attributes, children)
Encode ==
    /\ codec.input # None
    /\ codec.text = None
    /\ codec' = [codec EXCEPT !.text =
           Some(construct_message(codec.input[1].name, codec.input[1].attributes,
                                  codec.input[1].children))]
    /\ UNCHANGED <<_events, _eventlock, _sequencelock, isSet, _sequence, queueVars,
                   sessionVars, slots, handled, peerVars, pc, todo, local, raised,
                   result, created, issued, generator, store, stream, pending, routed>>

\* parse_message(messagedata)
Decode ==
    /\ codec.text # None
    /\ codec.output = None
    /\ WellFormed(codec.text[1])
    /\ codec' = [codec EXCEPT !.output = Some(parse_message(codec.text[1]))]
    /\ UNCHANGED <<_events, _eventlock, _sequencelock, isSet, _sequence, queueVars,
                   sessionVars, slots, handled, peerVars, pc, todo, local, raised,
                   result, created, issued, generator, store, stream, pending, routed>>

CodecNext == Encode \/ Decode

SpecCodec == CodecInit /\ [][CodecNext]_vars

(***************************************************************************)
(* Properties.                                                             *)
(***************************************************************************)
\* the thread that created the Event of the waiter registered under key k
WaiterOf(k) == _events[k].event[1][1]

AlreadyWaiting(k) == Some("Already waiting for " \o k)

\* C1: session state is not shared across clients: (1) a dispatcher that
\* stores a response fills only a waiter registered by a caller of its own
\* client, and (2) a request fails with "Already waiting" only on a waiter
\* that a thread of the same client registered.
C1_SessionsAreIsolated ==
    [][/\ \A d \in Dispatchers :
             (/\ pc[d] = "d_store"
              /\ pc'[d] # "d_store"
              /\ local[d].message \in DOMAIN _events)
             => ClientOf(WaiterOf(local[d].message)) = ClientOf(d)
       /\ \A y \in Threads :
             (/\ pc[y] = "awaitresponse"
              /\ raised'[y] = AlreadyWaiting(local[y].message))
             => LET entry == _events[local[y].message]
                    owner == IF entry.event = None THEN _eventlock
                             ELSE entry.event[1][1]
                IN  ClientOf(owner) = ClientOf(y)]_vars

\* the threads that have registered (or are registering) a waiter and have
\* not left _awaitresponse yet
Outstanding(x) == pc[x] \in {"register_event", "wait", "blocked", "parse", "pop"}

\* C2: at most one outstanding waiter per correlation key: no two threads of
\* one client are inside _awaitresponse, past the membership test, under the
\* same key.
C2_OneWaiterPerKey ==
    \A x, y \in Threads :
        (/\ x # y
         /\ ClientOf(x) = ClientOf(y)
         /\ Outstanding(x)
         /\ Outstanding(y))
        => local[x].message # local[y].message

\* the envelope the call in progress on thread x builds in _sendrequest
RequestOf(x) ==
    construct_message(Command(local[x].op).request,
                      MessageData(local[x].op, local[x].arg, local[x].sequence),
                      Children(local[x].op, local[x].arg))

\* C3: a request whose key already has a waiter fails before any network I/O:
\* the envelope of a call that failed with "Already waiting" is neither on the
\* send queue nor written to the socket.
C3_DuplicateIsNotSent ==
    \A x \in Threads :
        raised[x] = AlreadyWaiting(local[x].message)
        => /\ RequestOf(x) \notin Range(_send_q[ClientOf(x)])
           /\ RequestOf(x) \o <<NUL>> \notin Range(wire[ClientOf(x)])

\* C4: no command other than the version query is sent before login: as long
\* as login has not been called on a client (its socket is unconnected), the
\* send queue holds nothing but GetVersions requests.
C4_CommandsNeedLogin ==
    \A c \in Clients :
        _ssl_socket[c] = "unconnected"
        => \A i \in DOMAIN _send_q[c] : _send_q[c][i][1].name = "GetVersions"

\* C6: once on_HealthState is subscribed and its slot registered, the
\* dispatcher step that takes an EventHealthState envelope off the receive
\* queue calls the slot with the envelope's name and attributes and leaves
\* the correlation table unchanged.
C6_HealthStateReachesSink ==
    [][\A c \in Clients :
          (/\ pc[DispatcherOf(c)] = "d_poll"
           /\ pc'[DispatcherOf(c)] # "d_poll"
           /\ Slot("HealthState") \in slots[c]
           /\ _recv_q[c] # <<>>
           /\ Head(_recv_q[c]) = <<EventFrame("HealthState"), NUL>>)
          => /\ handled'[c] = Append(handled[c],
                    <<Slot("HealthState"), "EventHealthState",
                      EventFrame("HealthState").attrs>>)
             /\ _events' = _events]_vars

\* C10: login called again after a completed logout succeeds: no login fails
\* on a client whose socket logout has closed.
C10_LoginAfterLogout ==
    \A x \in Callers :
        ~(/\ local[x].op = "login"
          /\ pc[x] = "raised"
          /\ _ssl_socket[ClientOf(x)] = "closed")

\* the decoded replies the peer may give to the request of the call in
\* progress on thread x
OwnReplies(x) ==
    {parse_message(<<r, NUL>>) : r \in PeerReplies(store[ClientOf(x)], RequestOf(x)[1])}

\* C5: correlation under reordering: whatever the arrival order, a caller that
\* gets a response back from _awaitresponse gets one whose name plus seq
\* attribute is its own key, and a caller whose request carries a sequence
\* number gets the reply to its own request.
C5_OwnResponse ==
    \A x \in Callers :
        pc[x] = "return"
        => LET data == local[x].data[1]
           IN  /\ DispatchKey(data[1], data[2]) = local[x].message
               /\ Command(local[x].op).seq => data \in OwnReplies(x)

\* C5 witness: a3 has its response back while a2, whose request was written
\* to the socket earlier, is still blocked: the replies arrived out of order.
C5_Witness ==
    /\ pc["a3"] = "return"
    /\ pc["a2"] = "blocked"
    /\ local["a2"].message # local["a3"].message
    /\ \E i, j \in DOMAIN wire["A"] :
          /\ i < j
          /\ wire["A"][i] = RequestOf("a2") \o <<NUL>>
          /\ wire["A"][j] = RequestOf("a3") \o <<NUL>>
          /\ j \in answered["A"]
          /\ i \notin answered["A"]

\* C7: the values _get_sequence hands out on one client are strictly
\* increasing in the order the sequence lock is taken (so pairwise distinct),
\* every value returned is one of them, two threads never hold the same
\* value, and the counter is past every value handed out.
C7_SequencesIncrease ==
    \A c \in Clients :
        /\ \A i, j \in DOMAIN issued[c] : i < j => issued[c][i] < issued[c][j]
        /\ \A i \in DOMAIN issued[c] :
              \/ issued[c][i] < _sequence[c]
              \/ /\ i = Len(issued[c])
                 /\ _sequencelock \in Threads
                 /\ ClientOf(_sequencelock) = c
        /\ \A x, y \in Callers :
              (/\ ClientOf(x) = c
               /\ ClientOf(y) = c
               /\ local[x].op = "_get_sequence"
               /\ local[y].op = "_get_sequence"
               /\ result[x] # None
               /\ result[y] # None)
              => /\ result[x][1] \in Range(issued[c])
                 /\ x # y => result[x] # result[y]

\* C7 witness: three threads of one client have each been handed values, and
\* one thread waits for the sequence lock while another holds it.
C7_Witness ==
    /\ Len(issued["A"]) >= 4
    /\ \A x \in {"a1", "a2", "a3"} : local[x].op = "_get_sequence" /\ result[x] # None
    /\ _sequencelock \in {"a1", "a2", "a3"}
    /\ \E x \in {"a1", "a2", "a3"} : pc[x] = "get_sequence"

C9_CloseAfterLoopsEnd ==
    \A c \in Clients :
        /\ \A x \in Callers :
              (ClientOf(x) = c /\ pc[x] \in {"join_worker", "join_dispatcher", "close"})
              => _terminate[c]
        /\ \A x \in Callers :
              (ClientOf(x) = c /\ pc[x] = "close")
              => /\ _worker[c] = "exited"
                 /\ pc[DispatcherOf(c)] \in {"exited", "raised"}
        /\ _ssl_socket[c] = "closed"
           => /\ _terminate[c]
              /\ _worker[c] = "exited"
              /\ pc[DispatcherOf(c)] \in {"exited", "raised"}
        /\ _worker[c] # "raised"

\* C9 witness: logout of a logged-in session has closed the socket after the
\* pump wrote requests and the dispatcher ran.
C9_Witness ==
    /\ _ssl_socket["A"] = "closed"
    /\ Len(wire["A"]) >= 3
    /\ pc["a1"] = "idle"

\* the record table a generator walks through, and its records in ascending
\* order of id, as the attribute maps the generator yields
Table(x) == store[ClientOf(x)][Paged(generator[x].op).tag]

Expected(x) ==
    LET ids == Ascending(Table(x))
    IN  [i \in 1..Len(ids) |-> (Paged(generator[x].op).id :> ToString(ids[i]))]

IsPageRequest(msg) == "maxRecords" \in DOMAIN msg[1].attrs

\* the page requests a client has issued, in order: those written to the
\* socket and those still on the send queue
PageRequests(c) ==
    SelectSeq([i \in DOMAIN wire[c] |-> SubSeq(wire[c][i], 1, 1)] \o _send_q[c],
              IsPageRequest)

IsPageAnswer(reply) == reply.name \in {"GetPPDevResp", "GetPPUserResp"}

\* the page responses the peer has sent, in order
PageAnswers(c) == SelectSeq(stream[c], IsPageAnswer)

\* C11: against a peer that holds k records with distinct ids (not below the
\* start cursor 0) and answers a page request with the up to 20 lowest ids from
\* the cursor on, get_devices(0) / get_users(0) yields every record exactly
\* once in ascending order of id: what has been yielded is at any time a
\* prefix of the ascending list, and all of it once the generator is
\* exhausted, after at most k/20 + 1 page requests.
C11_PaginationComplete ==
    \A x \in Callers :
        generator[x].state # "none"
        => LET yielded == generator[x].yielded
           IN  /\ Len(yielded) <= Len(Expected(x))
               /\ yielded = SubSeq(Expected(x), 1, Len(yielded))
               /\ generator[x].state = "exhausted" => yielded = Expected(x)
               /\ Len(PageRequests(ClientOf(x)))
                     <= (Cardinality(Table(x)) \div MAX_RECORDS) + 1
               /\ raised[x] = None

\* C11 witness: a traversal of 21 records is over: a full page, then a page
\* that holds a single record.
C11_Witness ==
    \E x \in Callers :
        /\ generator[x].state = "exhausted"
        /\ Len(generator[x].yielded) = MAX_RECORDS + 1
        /\ Len(PageAnswers(ClientOf(x))[2].children) = 1

Ceil(k, p) == (k + p - 1) \div p

\* C12, as stated: a full traversal of k records with page size p issues
\* ceil(k/p) page requests, whether or not k is a multiple of p.
C12_CeilRequests ==
    \A x \in Callers :
        generator[x].state = "exhausted"
        => Len(PageRequests(ClientOf(x))) = Ceil(Cardinality(Table(x)), MAX_RECORDS)

\* C12, amended: a full traversal of k records with page size p issues
\* floor(k/p) + 1 page requests: ceil(k/p) when k is not a multiple of p and
\* k/p + 1 when it is (k = 0 included), the last one answered without records.
C12_RequestCount ==
    \A x \in Callers :
        generator[x].state = "exhausted"
        => LET k        == Cardinality(Table(x))
               requests == Len(PageRequests(ClientOf(x)))
           IN  /\ requests = (k \div MAX_RECORDS) + 1
               /\ k % MAX_RECORDS # 0 => requests = Ceil(k, MAX_RECORDS)
               /\ k % MAX_RECORDS = 0 => requests = Ceil(k, MAX_RECORDS) + 1

\* C12 witness: a traversal of two full pages is over, after three requests.
C12_Witness ==
    \E x \in Callers :
        /\ generator[x].state = "exhausted"
        /\ Cardinality(Table(x)) = 2 * MAX_RECORDS
        /\ Len(PageRequests(ClientOf(x))) = 3

\* C13: after a page response of exactly 20 records the next page request
\* asks from one past the last record's id; after a page of fewer than 20
\* records no further request is issued, and a traversal ends only on such a
\* page; against a peer that holds exactly 20 records the traversal from
\* cursor 0 issues exactly two requests, the second answered without records.
C13_FullPageHeuristic ==
    \A x \in Callers :
        generator[x].state # "none"
        => LET c        == ClientOf(x)
               idattr   == Paged(generator[x].op).id
               requests == PageRequests(c)
               answers  == PageAnswers(c)
           IN  /\ \A i \in DOMAIN answers :
                     LET n == Len(answers[i].children)
                     IN  /\ i < Len(requests)
                            => /\ n = MAX_RECORDS
                               /\ int(requests[i + 1][1].attrs[idattr])
                                     = int(answers[i].children[n].attrs[idattr]) + 1
                         /\ n < MAX_RECORDS => i = Len(requests)
               /\ generator[x].state = "exhausted"
                  => /\ Len(answers) = Len(requests)
                     /\ Len(answers[Len(answers)].children) < MAX_RECORDS
               /\ (generator[x].state = "exhausted"
                   /\ Cardinality(Table(x)) = MAX_RECORDS)
                  => /\ Len(requests) = 2
                     /\ answers[2].children = <<>>

\* C13 witness: the traversal of exactly 20 records is over.
C13_Witness ==
    \E x \in Callers :
        /\ generator[x].state = "exhausted"
        /\ Cardinality(Table(x)) = MAX_RECORDS
        /\ Len(generator[x].yielded) = MAX_RECORDS
        /\ Len(PageRequests(ClientOf(x))) = 2

\* an attribute dict with every value stringified
Stringified(attributes) ==
    [k \in DOMAIN attributes |->
        IF "int" \in DOMAIN attributes[k] THEN ToString(attributes[k].int)
        ELSE attributes[k].str]

\* the attribute maps of the child elements with tag `tag`, in document order
Occurrences(elems, tag) ==
    LET HasTag(e) == e.tag = tag
        same == SelectSeq(elems, HasTag)
    IN  [i \in DOMAIN same |-> same[i].attrs]

\* C14: codec round trip: parse_message(construct_message(name, attrs,
\* children)) returns the name, the attributes with every value stringified
\* and the children dict, every tag of it (occurring once) as a single
\* attribute map with its values stringified; and parse_message of a document
\* returns, for a tag occurring once, its attribute map and, for a tag
\* occurring two or more times, the list of the attribute maps in wire order.
C14_RoundTrip ==
    codec.output # None
    => LET name       == codec.output[1][1]
           attributes == codec.output[1][2]
           children   == codec.output[1][3]
       IN  IF codec.input # None
           THEN LET input == codec.input[1]
                    given == IF input.children = None THEN EmptyMap
                             ELSE input.children[1].map
                IN  /\ name = input.name
                    /\ attributes = IF input.attributes = None THEN EmptyMap
                                    ELSE Stringified(input.attributes[1])
                    /\ DOMAIN children = DOMAIN given
                    /\ \A tag \in DOMAIN given :
                          children[tag] = [one |-> Stringified(given[tag])]
           ELSE LET document == codec.text[1][1]
                    tags     == {document.children[i].tag : i \in DOMAIN document.children}
                IN  /\ name = document.name
                    /\ attributes = document.attrs
                    /\ DOMAIN children = tags
                    /\ \A tag \in tags :
                          LET maps == Occurrences(document.children, tag)
                          IN  children[tag] = IF Len(maps) = 1 THEN [one |-> maps[1]]
                                              ELSE [many |-> maps]

\* C14 witness: a message with attributes and two children, one of them with
\* an integer-valued attribute, has been encoded and decoded again.
C14_Witness ==
    /\ codec.output # None
    /\ codec.input # None
    /\ codec.input[1].attributes = Some([seq |-> PyStr("7"), uid |-> PyInt(2)])
    /\ codec.input[1].children # None
    /\ codec.input[1].children[1].order = <<"pp", "user">>
    /\ codec.input[1].children[1].map["user"] = [uid |-> PyInt(1), pin |-> PyStr("x")]
    /\ codec.output[1][3]["user"] = [one |-> [uid |-> "1", pin |-> "x"]]

\* the names of the responses to the commands
ResponseNames ==
    {Command(op).request \o "Resp" :
        op \in {"login", "get_account", "subscribe_event", "get_versions", "ping",
                "get_device", "get_user", "delete_user", "get_device_state",
                "get_devices", "get_users"}}

\* C15: lost-response safety: the dispatcher step that looks up the key of a
\* decoded envelope under which no waiter is registered ends without an
\* error, leaves the dispatcher in its loop and leaves the correlation table
\* and every waiter's Event as they were.
C15_LostResponse ==
    [][\A d \in Dispatchers :
          (/\ pc[d] = "d_store"
           /\ pc'[d] # "d_store"
           /\ local[d].message \notin DOMAIN _events)
          => /\ pc'[d] = "d_top"
             /\ raised'[d] = None
             /\ _events' = _events
             /\ isSet' = isSet]_vars

\* C15 witness: the dispatcher has looked up a response nobody waited for
\* while the waiter of another key is registered, and is back in its loop.
C15_Witness ==
    \E c \in Clients :
        /\ \E i \in DOMAIN routed[c] :
              /\ routed[c][i].waiter = None
              /\ routed[c][i].envelope.name \in ResponseNames
        /\ pc[DispatcherOf(c)] \in {"d_top", "d_poll"}
        /\ raised[DispatcherOf(c)] = None
        /\ \E x \in Callers : ClientOf(x) = c /\ pc[x] = "blocked"

\* C16: a malformed inbound frame is fatal to that frame only: the dispatcher
\* step that takes a frame off the receive queue that does not decode drops
\* it and ends without an error, back in the loop, so that the responses that
\* arrive afterwards are still routed.
C16_MalformedFrameDropped ==
    [][\A d \in Dispatchers :
          (/\ pc[d] = "d_poll"
           /\ pc'[d] # "d_poll"
           /\ _recv_q[ClientOf(d)] # <<>>
           /\ Head(_recv_q[ClientOf(d)]) = <<Malformed, NUL>>)
          => /\ pc'[d] = "d_top"
             /\ raised'[d] = None
             /\ _recv_q'[ClientOf(d)] = Tail(_recv_q[ClientOf(d)])]_vars

\* a caller nobody can wake any more: it waits on its Event for the response
\* to a request that the pump took off the send queue and failed to write,
\* the pump has ended with the error of the write, and no response is queued
\* or in the dispatcher's hands
WaitsForUnwritten(x) ==
    LET c == ClientOf(x)
    IN  /\ pc[x] = "blocked"
        /\ local[x].event[1] \notin isSet
        /\ RequestOf(x) \notin Range(_send_q[c])
        /\ (RequestOf(x) \o <<NUL>>) \notin Range(wire[c])
        /\ _ssl_socket[c] = "broken"
        /\ _worker[c] = "raised"
        /\ _recv_q[c] = <<>>
        /\ pc[DispatcherOf(c)] # "d_store"

\* C17: a socket write failure for a queued request is surfaced to the caller
\* that triggered the send: no caller remains blocked on a request whose
\* write has failed.
C17_WriteFailureSurfaced ==
    \A x \in Callers : ~WaitsForUnwritten(x)

\* s is the beginning of t
IsPrefix(s, t) ==
    /\ Len(s) <= Len(t)
    /\ \A i \in DOMAIN s : s[i] = t[i]

\* the envelopes the dispatcher has looked up, in order
RoutedEnvelopes(c) == [i \in DOMAIN routed[c] |-> routed[c][i].envelope]

\* C18: inbound framing is by delimiter, not by socket read: however the
\* stream of well-formed delimiter-terminated envelopes is cut into reads,
\* the dispatcher decodes every item without a parse error and the envelopes
\* it routes are, in order, the envelopes of the stream.
C18_FramingByDelimiter ==
    \A c \in Clients :
        Malformed \notin Range(stream[c])
        => /\ raised[DispatcherOf(c)] # Some("ExpatError")
           /\ IsPrefix(RoutedEnvelopes(c), stream[c])

\* the requests a client has issued, in order: those written to the socket
\* and those still on the send queue
Requests(c) == [i \in DOMAIN wire[c] |-> SubSeq(wire[c][i], 1, 1)] \o _send_q[c]

IsPinRequest(msg) == msg[1].name = "SetPPUser"

\* the sequence numbers of the SetPPUser requests a client has issued
PinSequences(c) ==
    {msg[1].attrs.seq : msg \in {m \in Range(Requests(c)) : IsPinRequest(m)}}

\* C19: the step of set_user_pin that sends puts on the send queue one
\* SetPPUser request whose user child carries encrypt_pin(pin, stored modulus,
\* stored exponent), which is not the pin as given, under a sequence number no
\* earlier SetPPUser request has; and a call the peer answers with a user
\* child returns True and leaves no waiter under its key, the first time and
\* the second.
C19_PinEncrypted ==
    [][\A x \in Callers :
          LET c == ClientOf(x)
          IN  /\ (/\ pc[x] = "sendrequest"
                  /\ local[x].op = "set_user_pin"
                  /\ pc'[x] # "sendrequest")
                 => LET msg == _send_q'[c][Len(_send_q'[c])]
                        pin == encrypt_pin(local[x].arg.pin, _modulus[c][1], _exponent[c][1])
                    IN  /\ _send_q'[c] = Append(_send_q[c], msg)
                        /\ msg[1].name = "SetPPUser"
                        /\ msg[1].children =
                              <<[tag   |-> "user",
                                 attrs |-> [uid |-> ToString(local[x].arg.uid),
                                            pin |-> pin]]>>
                        /\ pin # local[x].arg.pin
                        /\ msg[1].attrs.seq \notin PinSequences(c)
              /\ (/\ pc[x] = "return"
                  /\ local[x].op = "set_user_pin"
                  /\ pc'[x] # "return"
                  /\ "user" \in DOMAIN local[x].data[1][3])
                 => /\ pc'[x] = "idle"
                    /\ result'[x][1].value = TRUE
                    /\ local[x].message \notin DOMAIN _events']_vars

\* C19 witness: both calls have returned, the second with True; the two
\* requests went out with the same encrypted pin and different sequence
\* numbers, the peer answered both with a user child, and no waiter is left.
C19_Witness ==
    /\ Cardinality(PinSequences("A")) = 2
    /\ todo["a1"] = <<>>
    /\ pc["a1"] = "idle"
    /\ result["a1"] # None
    /\ result["a1"][1].response[1] = "SetPPUserResp"
    /\ result["a1"][1].value = TRUE
    /\ \A msg \in Range(Requests("A")) :
          IsPinRequest(msg)
          => msg[1].children[1].attrs.pin =
                encrypt_pin("1234", _modulus["A"][1], _exponent["A"][1])
    /\ \A reply \in Range(stream["A"]) :
          reply.name = "SetPPUserResp" => reply.children # <<>>
    /\ _events = EmptyMap

\* what passes through the socket of a client: the frames written to it, and
\* what the peer has sent and the reads have taken
Socket(c) == <<wire[c], answered[c], pushed[c], stream[c], pending[c]>>

\* C20: every socket write and every socket read is a step of the pump: a
\* step that sends on or receives from the socket of a client is a step of
\* that client's pump and of no other thread, the pump alone takes from the
\* send queue and puts on the receive queue, and a step of any other thread
\* at most puts one message on the send queue (in _sendrequest) or takes the
\* head of the receive queue (in _dispatch).
C20_PumpOwnsSocket ==
    [][\A c \in Clients :
          /\ Socket(c)' # Socket(c)
             => /\ _worker[c] \in {"top", "recv"}
                /\ _worker'[c] # _worker[c]
                /\ pc' = pc
          /\ pc' # pc
             => /\ \/ _send_q'[c] = _send_q[c]
                   \/ /\ \E x \in Threads :
                            /\ ClientOf(x) = c
                            /\ pc[x] = "sendrequest"
                            /\ pc'[x] # pc[x]
                      /\ Len(_send_q'[c]) = Len(_send_q[c]) + 1
                      /\ SubSeq(_send_q'[c], 1, Len(_send_q[c])) = _send_q[c]
                /\ \/ _recv_q'[c] = _recv_q[c]
                   \/ /\ pc[DispatcherOf(c)] = "d_poll"
                      /\ pc'[DispatcherOf(c)] # "d_poll"
                      /\ _recv_q[c] # <<>>
                      /\ _recv_q'[c] = Tail(_recv_q[c])]_vars

\* C20 witness: a request a caller put on the send queue has been written to
\* the socket, and its response, read from the socket, has been taken off the
\* receive queue by the dispatcher and given to the caller, which returned.
C20_Witness ==
    \E x \in Callers :
        LET c == ClientOf(x)
        IN  /\ wire[c] # <<>>
            /\ stream[c] # <<>>
            /\ routed[c] # <<>>
            /\ routed[c][1].waiter # None
            /\ _send_q[c] = <<>>
            /\ _recv_q[c] = <<>>
            /\ pc[x] = "idle"
            /\ result[x] # None

\* the states of a session in the order of its life
Lifecycle ==
    <<"Disconnected", "Connecting", "AwaitingHandshakeResponse", "LoggedIn",
      "Terminating", "Closed">>

Rank(state) == CHOOSE i \in DOMAIN Lifecycle : Lifecycle[i] = state

\* a thread is inside logout, past line 741
InLogout(c) ==
    \E x \in Callers :
        /\ ClientOf(x) = c
        /\ pc[x] \in {"terminate", "join_worker", "join_dispatcher", "close"}

\* a thread is inside login, at the connect of line 139
InConnect(c) == \E x \in Callers : ClientOf(x) = c /\ pc[x] = "connect"

\* the state of the session of a client, read from the client's attributes
\* and from where its login or logout call stands
SessionState(c) ==
    IF _ssl_socket[c] = "closed" THEN "Closed"
    ELSE IF _terminate[c] \/ InLogout(c) THEN "Terminating"
    ELSE IF _logged_in[c] THEN "LoggedIn"
    ELSE IF _ssl_socket[c] # "unconnected" THEN "AwaitingHandshakeResponse"
    ELSE IF InConnect(c) THEN "Connecting"
    ELSE "Disconnected"

KeyOf(envelope) == DispatchKey(envelope.name, envelope.attrs)

\* the key _sendrequest awaits for a request frame
AwaitedKey(request) ==
    IF "seq" \in DOMAIN request.attrs
    THEN request.name \o "Resp" \o request.attrs.seq
    ELSE request.name \o "Resp"

\* a response under the key was dispatched while no waiter was registered
DroppedUnder(c, key) ==
    \E i \in DOMAIN routed[c] :
        routed[c][i].waiter = None /\ KeyOf(routed[c][i].envelope) = key

\* nothing under the key is on its way any more: no request on a send queue
\* or unanswered on a wire, no response on a receive queue or in the hands
\* of a dispatcher
NothingInFlight(key) ==
    \A c \in Clients :
        /\ \A i \in DOMAIN _send_q[c] : AwaitedKey(_send_q[c][i][1]) # key
        /\ \A i \in Unanswered(c) : AwaitedKey(wire[c][i][1]) # key
        /\ pending[c] = <<>>
        /\ \A i \in DOMAIN _recv_q[c] :
              WellFormed(_recv_q[c][i]) => KeyOf(rstrip(_recv_q[c][i])[1]) # key
        /\ pc[DispatcherOf(c)] = "d_store" => local[DispatcherOf(c)].message # key

\* no other thread is about to make a request
NoOtherCaller(x) ==
    \A y \in Threads \ {x} :
        /\ todo[y] = <<>>
        /\ pc[y] \notin {"ensure_login", "get_sequence", "sequence_increment",
                         "sendrequest", "connect", "start_worker", "start_dispatcher"}
        /\ pc[y] = "return" => local[y].op \notin {"login"} \cup Generators

\* no event can make a dispatcher subscribe: the slot of every event type the
\* peer may push (line 724) is in the instance __dict__ already (line 67)
EventsFindSinks ==
    \A c \in Clients :
        \A eventType \in Subscribed([i \in DOMAIN wire[c] |-> SubSeq(wire[c][i], 1, 1)]
                                    \o _send_q[c]) :
            IsEvent("Event" \o eventType) => Slot(eventType) \in slots[c]

\* the caller waits on an Event that is not set for a response that was
\* dropped before the caller registered
WaitsForDropped(x) ==
    /\ pc[x] = "blocked"
    /\ local[x].event[1] \notin isSet
    /\ DroppedUnder(ClientOf(x), local[x].message)
    /\ NothingInFlight(local[x].message)
    /\ NoOtherCaller(x)
    /\ EventsFindSinks

\* C22: a caller whose response was dispatched before it registered its
\* waiter stays blocked: once it waits for the dropped response, with nothing
\* else under its key on the way and no other thread about to make a
\* request, no step of any thread wakes it.
C22_DroppedResponseBlocks ==
    [][\A x \in Callers : WaitsForDropped(x) => WaitsForDropped(x)']_vars

\* C22 witness: the interleaving enqueue, pump sends, response received and
\* dispatched, then register: a command sent after login waits for a response
\* that was dropped.
C22_Witness ==
    \E x \in Callers :
        /\ WaitsForDropped(x)
        /\ local[x].op = "get_device_state"
        /\ _logged_in[ClientOf(x)]

\* the thread is inside _awaitresponse, between the registration of its
\* waiter and the pop of its key
InFlight(x) ==
    pc[x] \in {"register_event", "wait", "blocked", "parse", "pop"}

\* C23: a waiter is consumed exactly once: the step in which _awaitresponse
\* returns has removed the call's key from the correlation table; whenever no
\* call is in flight the table is empty; and a call that enters
\* _awaitresponse while no other call is in flight registers its key without
\* an error, also when an earlier call has awaited the same key.
C23_WaiterConsumedOnce ==
    /\ []((\A x \in Threads : ~InFlight(x)) => _events = EmptyMap)
    /\ [][\A x \in Threads :
             /\ (pc[x] = "pop" /\ pc'[x] = "return")
                => /\ local[x].message \in DOMAIN _events
                   /\ local[x].message \notin DOMAIN _events'
             /\ (/\ pc[x] = "awaitresponse"
                 /\ pc'[x] # "awaitresponse"
                 /\ \A y \in Threads \ {x} : ~InFlight(y))
                => /\ pc'[x] = "register"
                   /\ raised'[x] = None]_vars

\* C23 witness: the second ping, which awaits the key the first ping awaited
\* and removed, has registered, was answered and has returned, and the table
\* is empty.
C23_Witness ==
    /\ Len(SelectSeq(wire["A"], LAMBDA frame : frame[1].name = "Ping")) = 2
    /\ \A i \in DOMAIN routed["A"] :
          routed["A"][i].envelope.name = "PingResp" => routed["A"][i].waiter # None
    /\ Len(SelectSeq(routed["A"], LAMBDA r : r.envelope.name = "PingResp")) = 2
    /\ todo["a1"] = <<>>
    /\ pc["a1"] = "idle"
    /\ \A x \in Threads : ~InFlight(x)
    /\ _events = EmptyMap

\* the frames the peer has sent that _dispatch hands to an event sink, and
\* those it looks up in the correlation table, each in arrival order
ArrivedEvents(c) == SelectSeq(stream[c], LAMBDA frame : IsEvent(frame.name))

ArrivedResponses(c) == SelectSeq(stream[c], LAMBDA frame : ~IsEvent(frame.name))

\* the envelopes given to event sinks so far, in order
SinkEnvelopes(c) ==
    [i \in DOMAIN handled[c] |-> [name |-> handled[c][i][2], attrs |-> handled[c][i][3]]]

\* the receive queue holds the frames that arrived last, in arrival order
QueuedInArrivalOrder(c) ==
    LET n == Len(_recv_q[c])
        m == Len(stream[c])
    IN  /\ n <= m
        /\ \A i \in 1..n : _recv_q[c][i] = <<stream[c][m - n + i], NUL>>

\* C24: ordering through the pipeline: a pump step that writes takes the
\* head of the send queue and writes it once, followed by one delimiter, one
\* message per cycle, and the send queue loses messages in no other way; the
\* receive queue holds the frames in arrival order, and the dispatcher takes
\* its head, one item per poll; so the envelopes given to event sinks and
\* those looked up for waiters are, in order, the events and the responses
\* that arrived.
C24_PipelineOrder ==
    /\ [](\A c \in Clients :
             /\ \A i \in DOMAIN wire[c] :
                   /\ Len(wire[c][i]) = 2
                   /\ wire[c][i][1] # NUL
                   /\ wire[c][i][2] = NUL
             /\ QueuedInArrivalOrder(c)
             /\ IsPrefix(RoutedEnvelopes(c), ArrivedResponses(c))
             /\ IsPrefix(SinkEnvelopes(c),
                         [i \in DOMAIN ArrivedEvents(c) |->
                             [name  |-> ArrivedEvents(c)[i].name,
                              attrs |-> ArrivedEvents(c)[i].attrs]]))
    /\ [][\A c \in Clients :
             /\ (wire'[c] # wire[c] \/ Len(_send_q'[c]) < Len(_send_q[c]))
                => /\ _send_q[c] # <<>>
                   /\ wire'[c] = Append(wire[c], Head(_send_q[c]) \o <<NUL>>)
                   /\ _send_q'[c] = Tail(_send_q[c])
                   /\ _worker[c] = "top"
                   /\ _worker'[c] = "recv"
             /\ Len(_recv_q'[c]) < Len(_recv_q[c])
                => /\ _recv_q'[c] = Tail(_recv_q[c])
                   /\ pc[DispatcherOf(c)] = "d_poll"
                   /\ pc'[DispatcherOf(c)] # "d_poll"]_vars

\* C24 witness: at least four requests have been written, an event and the
\* responses arrived, the event has reached its sink and every response its
\* waiter, and both queues are empty again.
C24_Witness ==
    \E c \in Clients :
        /\ Len(wire[c]) >= 4
        /\ handled[c] # <<>>
        /\ Len(routed[c]) >= 4
        /\ \A i \in DOMAIN routed[c] : routed[c][i].waiter # None
        /\ _send_q[c] = <<>>
        /\ _recv_q[c] = <<>>

\* the pump and the dispatcher of the client are in their loops
LoopsRunning(c) ==
    /\ _worker[c] \in {"top", "recv"}
    /\ pc[DispatcherOf(c)] \in {"d_top", "d_poll", "d_store"}

\* logout has returned on the client: both loops have exited, the socket is
\* closed and no thread is inside logout
LoggedOut(c) ==
    /\ _worker[c] = "exited"
    /\ pc[DispatcherOf(c)] = "exited"
    /\ _ssl_socket[c] = "closed"
    /\ \A x \in Callers :
          ClientOf(x) = c
          => pc[x] \notin {"logout", "terminate", "join_worker", "join_dispatcher",
                           "close"}

\* C25: teardown liveness: once logout has set the termination flag while
\* the pump and the dispatcher are in their loops, under fair scheduling both
\* loops exit and logout returns with the socket closed, whatever is left on
\* the send queue, on the receive queue and in the correlation table.
C25_TeardownLiveness ==
    \A c \in Clients : (_terminate[c] /\ LoopsRunning(c)) ~> LoggedOut(c)

\* C25 witness: logout has returned with the socket closed while a request
\* is left on the send queue and its waiter in the correlation table.
C25_Witness ==
    /\ LoggedOut("A")
    /\ pc["a1"] = "idle"
    /\ todo["a1"] = <<>>
    /\ _send_q["A"] # <<>>
    /\ _events # EmptyMap

\* the commands the claim names
GuardedCommands == {call.op : call \in GuardedCalls}

\* C26: local rejection has no side effect: a call of get_account,
\* subscribe_event, get_sari, get_systemname, get_limits, ping, delete_user,
\* delete_device or get_device_state begins with the login check, and the
\* check on a client that is not logged in raises the not-logged-in error;
\* neither step changes the send queue, the correlation table or the sequence
\* counter.
C26_RejectionHasNoEffect ==
    [][\A x \in Threads :
          LET c == ClientOf(x)
              Untouched == /\ _send_q' = _send_q
                           /\ _events' = _events
                           /\ _sequence' = _sequence
          IN  /\ (/\ pc[x] = "idle"
                  /\ pc'[x] # "idle"
                  /\ Head(todo[x]).op \in GuardedCommands)
                 => /\ pc'[x] = "ensure_login"
                    /\ Untouched
              /\ (/\ pc[x] = "ensure_login"
                  /\ pc'[x] # "ensure_login"
                  /\ ~_logged_in[c])
                 => /\ local[x].op \in GuardedCommands
                    /\ pc'[x] = "raised"
                    /\ raised'[x] = Some("OMMClient not logged in")
                    /\ Untouched]_vars

\* C26 witness: after a command that took a sequence number and a logout,
\* delete_device has been rejected, with the counter where it was.
C26_Witness ==
    /\ pc["a1"] = "raised"
    /\ raised["a1"] = Some("OMMClient not logged in")
    /\ local["a1"].op = "delete_device"
    /\ _sequence["A"] = 1
    /\ ~_logged_in["A"]
    /\ Len(wire["A"]) = 3

=============================================================================
